---------------------------- MODULE Spec2Model ----------------------------
(***************************************************************************)
(* DockerMaid server (server/index.js): the update detector with its TTL   *)
(* cache, the self-update guard, and the single and batch container        *)
(* recreation handlers, against a model of the Docker daemon and of the    *)
(* registry.  Handlers are split at their awaits: one action is the        *)
(* arrival of the awaited answer together with the synchronous code that   *)
(* runs up to the next await.                                              *)
(*                                                                         *)
(* JavaScript strings that the code takes apart (image names, tags,        *)
(* container IDs and names) are sequences of one-character strings, so     *)
(* that startsWith, substring and indexOf are computed as the code does;   *)
(* null is the one-element sequence <<"null">>, which is no such string.   *)
(***************************************************************************)
EXTENDS Integers, Sequences, FiniteSets, TLC

(***************************************************************************)
(* String helpers (String.prototype methods used by the server).           *)
(***************************************************************************)
\* s.substring(from0, to0) with 0-based, end-exclusive indices
Substring(s, from0, to0) ==
  LET lo == IF from0 < 0 THEN 0 ELSE IF from0 > Len(s) THEN Len(s) ELSE from0
      hi == IF to0 < 0 THEN 0 ELSE IF to0 > Len(s) THEN Len(s) ELSE to0
  IN IF hi <= lo THEN <<>> ELSE SubSeq(s, lo + 1, hi)

\* s.substring(from0)
SubstringFrom(s, from0) == Substring(s, from0, Len(s))

\* s.startsWith(p)
StartsWith(s, p) == Len(p) <= Len(s) /\ SubSeq(s, 1, Len(p)) = p

\* s.endsWith(p)
EndsWith(s, p) ==
  Len(p) <= Len(s) /\ SubSeq(s, Len(s) - Len(p) + 1, Len(s)) = p

\* s.includes(c) for a single character c
Includes(s, c) == \E i \in 1..Len(s) : s[i] = c

\* s.indexOf(c): 0-based, -1 when absent
IndexOf(s, c) ==
  IF Includes(s, c)
    THEN (CHOOSE i \in 1..Len(s) : s[i] = c /\ \A j \in 1..(i - 1) : s[j] # c) - 1
    ELSE -1

\* s.lastIndexOf(c): 0-based, -1 when absent
LastIndexOf(s, c) ==
  IF Includes(s, c)
    THEN (CHOOSE i \in 1..Len(s) : s[i] = c /\ \A j \in (i + 1)..Len(s) : s[j] # c) - 1
    ELSE -1

Digits == {"0", "1", "2", "3", "4", "5", "6", "7", "8", "9"}

\* c.toLowerCase() on ASCII letters
LowerChar(c) ==
  LET upper == << "A","B","C","D","E","F","G","H","I","J","K","L","M",
                  "N","O","P","Q","R","S","T","U","V","W","X","Y","Z" >>
      lower == << "a","b","c","d","e","f","g","h","i","j","k","l","m",
                  "n","o","p","q","r","s","t","u","v","w","x","y","z" >>
  IN IF \E i \in 1..26 : upper[i] = c
       THEN lower[CHOOSE i \in 1..26 : upper[i] = c]
       ELSE c

ToLowerCase(s) == [i \in 1..Len(s) |-> LowerChar(s[i])]

(***************************************************************************)
(* Literals of the source.                                                 *)
(***************************************************************************)
DockerHub ==
  <<"r","e","g","i","s","t","r","y","-","1",".","d","o","c","k","e","r",".","i","o">>
Latest == <<"l","a","t","e","s","t">>
ColonLatest == <<":">> \o Latest
LibraryPrefix == <<"l","i","b","r","a","r","y","/">>
Sha256Prefix == <<"s","h","a","2","5","6",":">>

(***************************************************************************)
(* parseImageName: image name -> {registry, repository, tag}.              *)
(***************************************************************************)
\* lines 97-102: the library/ namespace of unqualified Docker Hub images
ImageRef(registry, repository, tag) ==
  [ registry |-> registry,
    repository |-> IF registry = DockerHub /\ ~Includes(repository, "/")
                     THEN LibraryPrefix \o repository ELSE repository,
    tag |-> tag ]

\* lines 87-95: a first path segment with a dot or a colon is the registry
ParseRegistry(repository, tag, firstSlash) ==
  IF /\ firstSlash > 0
     /\ \/ Includes(Substring(repository, 0, firstSlash), ".")
        \/ Includes(Substring(repository, 0, firstSlash), ":")
    THEN ImageRef(Substring(repository, 0, firstSlash),
                  SubstringFrom(repository, firstSlash + 1), tag)
    ELSE ImageRef(DockerHub, repository, tag)

\* a variant that takes a colon at the very start for the tag colon
ParseTagAnyColon(imageName, tagIndex) ==
  IF tagIndex >= 0 /\ ~Includes(SubstringFrom(imageName, tagIndex), "/")
    THEN ParseRegistry(Substring(imageName, 0, tagIndex),
                       SubstringFrom(imageName, tagIndex + 1),
                       IndexOf(Substring(imageName, 0, tagIndex), "/"))
    ELSE ParseRegistry(imageName, Latest, IndexOf(imageName, "/"))

\* lines 80-85: the text after the last colon is the tag, unless a slash
\* follows that colon
ParseTag(imageName, tagIndex) ==
  IF tagIndex > 0 /\ ~Includes(SubstringFrom(imageName, tagIndex), "/")
    THEN ParseRegistry(Substring(imageName, 0, tagIndex),
                       SubstringFrom(imageName, tagIndex + 1),
                       IndexOf(Substring(imageName, 0, tagIndex), "/"))
    ELSE ParseRegistry(imageName, Latest, IndexOf(imageName, "/"))

parseImageName(imageName) == ParseTag(imageName, LastIndexOf(imageName, ":"))

(***************************************************************************)
(* isPinnedVersionTag: pinned version vs. dynamic tag.                     *)
(***************************************************************************)
dynamicTags ==
  { Latest, <<"s","t","a","b","l","e">>, <<"m","a","i","n">>,
    <<"m","a","s","t","e","r">>, <<"e","d","g","e">>, <<"d","e","v">>,
    <<"n","i","g","h","t","l","y">>, <<"b","e","t","a">>,
    <<"a","l","p","h","a">>, <<"r","c">> }

\* a variant that asks for a dot or a dash in every version
isPinnedVersionTagDotted(tag) ==
  IF ToLowerCase(tag) \in dynamicTags THEN FALSE
  ELSE /\ \E i \in 1..Len(tag) : tag[i] \in Digits
       /\ \/ Includes(tag, ".")
          \/ Includes(tag, "-")

isPinnedVersionTag(tag) ==
  IF ToLowerCase(tag) \in dynamicTags THEN FALSE
  ELSE /\ \E i \in 1..Len(tag) : tag[i] \in Digits
       /\ \/ Includes(tag, ".")
          \/ Includes(tag, "-")
          \/ (Len(tag) >= 1 /\ tag[1] \in Digits)
          \/ (Len(tag) >= 2 /\ tag[1] = "v" /\ tag[2] \in Digits)


(***************************************************************************)
(* Bounds of the model.                                                    *)
(***************************************************************************)
\* length of a full container ID and of a short one (64 and 12 hex
\* characters in Docker), in units of the model's ID alphabet
IdLen == 3
ShortIdLen == 2
\* requests (single updates, batch updates, detection calls) started in a run
MaxReqs == 2
\* steps the clock takes in a run
MaxTicks == 1

\* handlers that may be between two of their awaits at the same time
MaxInFlight == 1


\* the same, where update requests overlap
MaxRacing == 2

\* failures of daemon and registry calls that the state of the daemon and
\* of the registry does not explain
MaxFaults == 1

\* containers the daemon creates in a run
MaxCreated == 3

\* positions of the container list a detection call may be made for
MaxListed == 5

CACHE_TTL == 5 * 60 * 1000
\* half the TTL
TickMs == CACHE_TTL \div 2

(***************************************************************************)
(* Values of the environment: container IDs and names, image names,        *)
(* image IDs and digests.                                                  *)
(***************************************************************************)
\* a full container ID that starts with hex digit p and ends with q
Cid(p, q) ==
  [i \in 1..IdLen |-> IF i = 1 THEN p ELSE IF i = IdLen THEN q ELSE "0"]

HexChars == Digits \cup {"a", "b", "c", "d", "e", "f"}
IsHex(s) == \A i \in 1..Len(s) : s[i] \in HexChars

NameDm == <<"d", "m">>
NameWeb == <<"w", "e", "b">>
NameDb == <<"d", "b">>
NameOld == <<"o", "l", "d">>
NameOff == <<"o", "f", "f">>

\* info.Name.replace(/^\//, '')
StripSlash(n) == IF Len(n) > 0 /\ n[1] = "/" THEN Tail(n) ELSE n

ImgA == <<"a">>
ImgA1 == <<"a", ":", "1">>
ImgLibALatest == LibraryPrefix \o <<"a">> \o ColonLatest
ImgDigestOnly == Sha256Prefix \o <<"f">>


\* a second registry, and the pinned image it serves
Elsewhere == <<"r", ".", "i", "o">>
ImgElsewhere == Elsewhere \o <<"/", "a", ":", "1">>

\* parseImageName of the names the fleet's images go by, computed once
KnownRefs ==
  [n \in {ImgA, ImgA1, ImgLibALatest, ImgElsewhere} |-> parseImageName(n)]

Parsed(name) ==
  IF name \in DOMAIN KnownRefs THEN KnownRefs[name] ELSE parseImageName(name)

\* an image ID "sha256:<hex>"; x.replace('sha256:', '') drops the prefix
ImageId(v) == [sha |-> TRUE, hex |-> v]
StripSha(id) == [id EXCEPT !.sha = FALSE]
NoImageId == [sha |-> FALSE, hex |-> 0]

Null == <<"null">>

\* recreation-relevant fields of info.Config
ConfigFields ==
  { "Hostname", "Domainname", "User", "AttachStdin", "AttachStdout",
    "AttachStderr", "Tty", "OpenStdin", "StdinOnce", "Env", "Cmd",
    "Entrypoint", "Labels", "WorkingDir", "ExposedPorts", "StopSignal",
    "StopTimeout", "Healthcheck" }

\* a container whose optional settings are all set, and one that leaves
\* the usual ones unset (null in the inspect answer)
FullConfig(tag) == [f \in ConfigFields |-> <<tag>>]
SparseConfig(tag) ==
  [f \in ConfigFields |->
     IF f \in {"Cmd", "ExposedPorts", "StopSignal", "StopTimeout", "Healthcheck"}
       THEN Null
     ELSE IF f \in {"Domainname", "User"} THEN <<"">>
     ELSE <<tag>>]

VARIABLES
  containers,      \* daemon: the containers, in listing order
  images,          \* daemon: the local images, in listing order
  regLatest,       \* registry: the digest that library/a:latest points to
  created,         \* daemon: number of containers created so far
  selfId,          \* the ID of the container the server runs in (<<>>: none)
  cgroupId,        \* the 64-hex ID found in /proc/self/cgroup (<<>>: none)
  hostname,        \* os.hostname()
  alive,           \* the server process is running
  now,             \* Date.now()
  ticks,           \* clock ticks taken
  started,         \* requests started
  faults,          \* failures the environment has injected
  checks,          \* calls of checkImageUpdate made so far
  updateCache,     \* Map: image name -> last check result
  updateLogs,      \* update log, newest first
  logIdCounter,
  ownContainerId,  \* memo of getOwnContainerId (<<>>: null)
  req,             \* the requests in flight, one per slot
  logsReq,         \* GET /api/containers/:id/logs: the locals of the decode loop
  call,            \* a call of one of the pure helpers: function, arguments, result
  pullReq,         \* POST /api/images/:imageName/pull: the locals of the handler
  cleared,         \* history: the last answered POST /api/cache/clear
  periodic         \* settings.checkInterval, periodicCheckInterval and the timers

vars ==
  << containers, images, regLatest, created, selfId, cgroupId, hostname,
     alive, now, ticks, started, updateCache, updateLogs, logIdCounter,
     ownContainerId, req, faults, checks, logsReq, call, pullReq, cleared,
     periodic >>

daemonVars == << containers, images, created, alive >>
envVars == << regLatest, selfId, cgroupId, hostname >>
\* the log request and the helper call, which the update handlers never touch
fnVars == << logsReq, call >>
\* the pull-only request, the record of the last cache clear, and the
\* periodic check
adminVars == << pullReq, cleared, periodic >>

\* the state of the server module and of the daemon, registry and clock
\* behind it
serverVars ==
  << containers, images, regLatest, created, selfId, cgroupId, hostname,
     alive, now, ticks, started, updateCache, updateLogs, logIdCounter,
     ownContainerId, req, faults, checks >>

(***************************************************************************)
(* The registry (auth.docker.io and registry-1.docker.io as the server     *)
(* sees them).  Digest 0 stands for "no such manifest".                    *)
(***************************************************************************)
RemoteDigestOf(ref) ==
  IF \/ ref.registry = DockerHub /\ ref.repository = LibraryPrefix \o <<"a">>
     \/ ref.registry = Elsewhere /\ ref.repository = <<"a">>
    THEN IF ref.tag = Latest THEN regLatest
         ELSE IF ref.tag = <<"1">> THEN 1 ELSE 0
    ELSE 0

(***************************************************************************)
(* The Docker daemon behind dockerode.                                     *)
(***************************************************************************)
\* the name under which the daemon lists a reference in RepoTags
FamiliarRepo(ref) ==
  IF ref.registry = DockerHub
    THEN IF StartsWith(ref.repository, LibraryPrefix)
           THEN SubstringFrom(ref.repository, Len(LibraryPrefix))
           ELSE ref.repository
    ELSE ref.registry \o <<"/">> \o ref.repository

Familiar(ref) ==
  [repo |-> FamiliarRepo(ref), tag |-> FamiliarRepo(ref) \o <<":">> \o ref.tag]

\* the images with the tag taken off whichever image carries it
Untag(imgs, tag) ==
  [i \in 1..Len(imgs) |-> [imgs[i] EXCEPT !.RepoTags = @ \ {tag}]]

\* the tag goes to the image with digest v, which is added when missing
TagImage(imgs, fam, v) ==
  IF \E i \in 1..Len(imgs) : imgs[i].Id = ImageId(v)
    THEN [i \in 1..Len(imgs) |->
            IF imgs[i].Id = ImageId(v)
              THEN [imgs[i] EXCEPT !.RepoTags = @ \cup {fam.tag}]
              ELSE imgs[i]]
    ELSE << [ Id |-> ImageId(v), RepoTags |-> {fam.tag},
              RepoDigests |-> << <<fam.repo, v>> >> ] >> \o imgs

PullRef(imgs, ref, fam) == TagImage(Untag(imgs, fam.tag), fam, RemoteDigestOf(ref))

\* docker pull: the tag moves to the image the registry serves
PullImage(imgs, name) ==
  PullRef(imgs, parseImageName(name), Familiar(parseImageName(name)))

CanPull(name) == RemoteDigestOf(parseImageName(name)) # 0

\* the local image a reference resolves to at container creation
LocalImageOf(imgs, name) ==
  {i \in 1..Len(imgs) : Familiar(parseImageName(name)).tag \in imgs[i].RepoTags}

\* docker.getContainer(ref): by ID, by name, or by unique ID prefix
Resolve(cs, ref) ==
  LET exact == {i \in 1..Len(cs) : cs[i].Id = ref}
      byName == {i \in 1..Len(cs) : StripSlash(cs[i].Name) = ref}
      byPrefix == {i \in 1..Len(cs) : Len(ref) > 0 /\ StartsWith(cs[i].Id, ref)}
  IN IF exact # {} THEN exact
     ELSE IF byName # {} THEN byName
     ELSE IF Cardinality(byPrefix) = 1 THEN byPrefix
     ELSE {}

RemoveAt(sq, i) == SubSeq(sq, 1, i - 1) \o SubSeq(sq, i + 1, Len(sq))

\* the IDs the daemon gives to new containers
FreshCid(n) == Cid("f", <<"1", "2", "3", "4", "5", "6", "7", "8", "9">>[n])

\* container.inspect(): the fields of the answer that the server reads
InspectOf(c) ==
  [ Id |-> c.Id, Name |-> c.Name, Image |-> c.ImageID,
    Config |-> c.Config @@ [Image |-> c.Image],
    HostConfig |-> c.HostConfig, Networks |-> c.Networks ]

\* docker.listContainers(): Id, Names, Image, ImageID, State of each
ListOf(cs, all) ==
  LET keep == {i \in 1..Len(cs) : all \/ cs[i].Running}
      RECURSIVE Build(_)
      Build(i) ==
        IF i > Len(cs) THEN <<>>
        ELSE IF i \in keep
          THEN << [Id |-> cs[i].Id, Names |-> <<cs[i].Name>>,
                   Image |-> cs[i].Image, ImageID |-> cs[i].ImageID] >>
               \o Build(i + 1)
          ELSE Build(i + 1)
  IN Build(1)

\* docker.createContainer(config): the container the daemon makes of it
NewContainer(config, id, imgId) ==
  [ Id |-> id, Name |-> <<"/">> \o config.name, Image |-> config.Image,
    ImageID |-> imgId, Running |-> FALSE,
    Config |-> [f \in ConfigFields |->
                  IF f \in DOMAIN config THEN config[f] ELSE Null],
    HostConfig |-> IF "HostConfig" \in DOMAIN config
                     THEN config.HostConfig ELSE Null,
    Networks |-> Tail(config.NetworkingConfig) ]


(***************************************************************************)
(* Requests.  Every slot holds the locals of one handler run (or of one    *)
(* direct detection call); st = [rq, cache, logs, logId, own] is the       *)
(* server state a synchronous stretch of handler code works on.            *)
(***************************************************************************)
Slots == {"u1", "u2", "b1", "k1", "k2"}

IdleReq ==
  [ kind |-> "idle", pc |-> "idle",
    containerId |-> <<>>, targetTag |-> <<>>, containerName |-> <<>>,
    info |-> <<>>, ownId |-> <<>>, isSelfUpdate |-> FALSE,
    originalImageName |-> <<>>, targetImageName |-> <<>>,
    currentTag |-> <<>>, newTag |-> <<>>,
    logId |-> <<>>, config |-> <<>>, newId |-> <<>>,
    calls |-> <<>>, errors |-> {}, resp |-> <<>>,
    list |-> <<>>, idx |-> 0, results |-> <<>>,
    selfUpdateSkipped |-> FALSE, selfUpdateContainerName |-> <<>>,
    cImg |-> <<>>, cId |-> NoImageId, cFetch |-> <<>>, cStage |-> "",
    cPinned |-> FALSE, cRemote |-> 0, cLocal |-> 0, cHas |-> FALSE,
    cNet |-> 0, cHit |-> FALSE, cResult |-> <<>>, cSeq |-> 0,
    checked |-> <<>> ]

Cur(r) ==
  [ rq |-> req[r], cache |-> updateCache, logs |-> updateLogs,
    logId |-> logIdCounter, own |-> ownContainerId, checks |-> checks ]

Apply(r, st) ==
  /\ req' = [req EXCEPT ![r] = st.rq]
  /\ updateCache' = st.cache
  /\ updateLogs' = st.logs
  /\ logIdCounter' = st.logId
  /\ ownContainerId' = st.own
  /\ checks' = st.checks

\* the handler issues a daemon call; cid is the container it is working on
Issue(rq, op, target, next) ==
  [rq EXCEPT !.calls = Append(@, [op |-> op, target |-> target,
                                  cid |-> rq.containerId]),
             !.pc = next]

\* a daemon call of the handler came back with an error
Failed(rq, op, target) ==
  [rq EXCEPT !.errors = @ \cup {[op |-> op, target |-> target,
                                 cid |-> rq.containerId]}]

\* String(n)
StringOf(n) == <<"#", n>>

\* Map.prototype.set / delete
CacheSet(cache, k, v) == (k :> v) @@ cache
CacheDelete(cache, k) == [x \in DOMAIN cache \ {k} |-> cache[x]]

(***************************************************************************)
(* Self-update guard.                                                      *)
(***************************************************************************)
\* ownId && (containerId === ownId || containerId.startsWith(
\*   ownId.substring(0, 12)) || ownId.startsWith(containerId))
GuardMatch(ownId, containerId) ==
  /\ ownId # <<>>
  /\ \/ containerId = ownId
     \/ StartsWith(containerId, Substring(ownId, 0, ShortIdLen))
     \/ StartsWith(ownId, containerId)

\* /docker[/-]([a-f0-9]{64})/ on /proc/self/cgroup
CgroupMatch == IF Len(cgroupId) = IdLen /\ IsHex(cgroupId) THEN cgroupId ELSE <<>>

\* hostnameValue && /^[a-f0-9]{12}$/.test(hostnameValue)
HostnameIsShortId == Len(hostname) = ShortIdLen /\ IsHex(hostname)

\* the loop over the listed containers in getOwnContainerId
FirstWithPrefix(list, prefix) ==
  LET hits == {i \in 1..Len(list) : StartsWith(list[i].Id, prefix)}
  IN IF hits = {} THEN <<>>
     ELSE list[CHOOSE i \in hits : \A j \in hits : i <= j].Id


(***************************************************************************)
(* Batch update: the loop of POST /api/containers/update-all.              *)
(***************************************************************************)
\* containerInfo.Names[0]?.replace(/^\//, '') || 'unknown'
Unknown == <<"u","n","k","n","o","w","n">>
ListedName(c) ==
  LET n == IF Len(c.Names) > 0 THEN StripSlash(c.Names[1]) ELSE <<>>
  IN IF n = <<>> THEN Unknown ELSE n

Push(rq, outcome) == [rq EXCEPT !.results = Append(@, outcome)]

\* the end of one loop iteration: the next container, or the response
BatchNext(st) ==
  LET rq == st.rq
      i == rq.idx + 1
  IN IF i > Len(rq.list)
       THEN [st EXCEPT !.rq =
               [rq EXCEPT !.idx = i, !.pc = "done",
                          !.resp = << [ code |-> 200, success |-> TRUE,
                                        results |-> rq.results,
                                        selfUpdateSkipped |-> rq.selfUpdateSkipped,
                                        selfUpdateContainerName |->
                                          rq.selfUpdateContainerName ] >>]]
       ELSE [st EXCEPT !.rq =
               Issue([rq EXCEPT !.idx = i,
                                !.containerId = rq.list[i].Id,
                                !.containerName = ListedName(rq.list[i]),
                                !.info = <<>>, !.config = <<>>, !.newId = <<>>],
                     "inspect", rq.list[i].Id, "inspect")]

\* `${repository}:${newTag}` for Docker Hub, else
\* `${registry}/${repository}:${newTag}`
TargetName(ref, newTag) ==
  IF ref.registry = DockerHub
    THEN ref.repository \o <<":">> \o newTag
    ELSE ref.registry \o <<"/">> \o ref.repository \o <<":">> \o newTag

\* a new log entry (lines 758-768, 970-980)
LogEntry(id, containerName, oldImage, newImage, message) ==
  [ id |-> StringOf(id), timestamp |-> now, containerName |-> containerName,
    oldImage |-> oldImage, newImage |-> newImage, newImageId |-> NoImageId,
    status |-> "in-progress", message |-> message ]

\* results.push({ ..., status: 'skipped', message }); continue
BatchSkip(st, message) ==
  BatchNext([st EXCEPT !.rq =
    Push(st.rq, [ containerId |-> st.rq.containerId,
                  containerName |-> st.rq.containerName,
                  status |-> "skipped", message |-> message ])])

\* lines 944-956: the batch skips the server's own container
BatchSelfSkip(st) ==
  BatchNext([st EXCEPT !.rq =
    Push([st.rq EXCEPT !.selfUpdateSkipped = TRUE,
                       !.selfUpdateContainerName = st.rq.containerName],
         [ containerId |-> st.rq.containerId,
           containerName |-> st.rq.containerName,
           status |-> "skipped", message |-> "Self-update skipped",
           selfUpdate |-> TRUE ])])

\* lines 968-992: the log entry is written and the pull is issued
BatchStartUpdate(st, currentTag, newTag, targetImageName) ==
  [st EXCEPT
     !.rq = Issue([st.rq EXCEPT !.currentTag = currentTag, !.newTag = newTag,
                                !.targetImageName = targetImageName,
                                !.logId = StringOf(st.logId)],
                  "pull", targetImageName, "pull"),
     !.logs = << LogEntry(st.logId, st.rq.containerName, currentTag, newTag,
                          <<"Updating", "">>) >> \o st.logs,
     !.logId = st.logId + 1]

\* a variant that pulls the tag the container has
BatchTargetKeepTag(st, ref) ==
  BatchStartUpdate(st, ref.tag, ref.tag, TargetName(ref, ref.tag))

\* lines 958-966: a pinned tag is updated to latest, a dynamic tag to itself
BatchTarget(st, ref) ==
  IF isPinnedVersionTag(ref.tag)
    THEN BatchStartUpdate(st, ref.tag, Latest, TargetName(ref, Latest))
    ELSE BatchStartUpdate(st, ref.tag, ref.tag, TargetName(ref, ref.tag))

\* a variant with the guard evaluated before the update status
BatchAfterCheckSelfFirst(st, updateCheck) ==
  IF GuardMatch(st.rq.ownId, st.rq.containerId) THEN BatchSelfSkip(st)
  ELSE IF ~updateCheck.hasUpdate THEN BatchSkip(st, "No update available")
  ELSE BatchTarget(st, parseImageName(st.rq.originalImageName))

\* lines 937-956: no update, then the self-update guard
BatchAfterCheck(st, updateCheck) ==
  IF ~updateCheck.hasUpdate THEN BatchSkip(st, "No update available")
  ELSE IF GuardMatch(st.rq.ownId, st.rq.containerId) THEN BatchSelfSkip(st)
  ELSE BatchTarget(st, parseImageName(st.rq.originalImageName))

(***************************************************************************)
(* checkImageUpdate(imageName, localImageId).                              *)
(***************************************************************************)
\* the result goes back to the caller: the batch loop, or a direct call;
\* checked keeps what the handler's detection calls returned
Checked(rq, result) ==
  [rq EXCEPT !.cResult = <<result>>,
             !.checked = Append(@, [cid |-> rq.containerId,
                                    hasUpdate |-> result.hasUpdate])]

CheckReturn(st, result) ==
  IF st.rq.kind = "batch"
    THEN BatchAfterCheck([st EXCEPT !.rq = Checked(st.rq, result)], result)
    ELSE [st EXCEPT !.rq = [Checked(st.rq, result) EXCEPT !.pc = "done"]]

\* a variant with the age comparison turned around
CacheHitInverted(cache, imageName, localImageId) ==
  /\ imageName \in DOMAIN cache
  /\ (now - cache[imageName].checkedAt) > CACHE_TTL
  /\ cache[imageName].localImageId = localImageId

\* a variant that does not compare the local image ID
CacheHitAnyId(cache, imageName, localImageId) ==
  /\ imageName \in DOMAIN cache
  /\ (now - cache[imageName].checkedAt) < CACHE_TTL

\* a variant that serves no error result from the cache
CacheHitNoError(cache, imageName, localImageId) ==
  /\ imageName \in DOMAIN cache
  /\ (now - cache[imageName].checkedAt) < CACHE_TTL
  /\ cache[imageName].localImageId = localImageId
  /\ cache[imageName].error = Null

\* cached && (Date.now() - cached.checkedAt) < CACHE_TTL
\*        && cached.localImageId === localImageId
CacheHit(cache, imageName, localImageId) ==
  /\ imageName \in DOMAIN cache
  /\ (now - cache[imageName].checkedAt) < CACHE_TTL
  /\ cache[imageName].localImageId = localImageId

\* !imageName || imageName.startsWith('sha256:')
ShortCircuit(imageName) ==
  imageName = <<>> \/ StartsWith(imageName, Sha256Prefix)

\* getRemoteDigest(name) starts: the token request for Docker Hub,
\* the manifest request otherwise
FetchDigest(rq, name, stage) ==
  [rq EXCEPT !.cFetch = name, !.cStage = stage, !.cNet = @ + 1,
             !.pc = IF parseImageName(name).registry = DockerHub
                      THEN "c_token" ELSE "c_manifest"]

\* lines 264-276: the image has no tag, or the cache answers
CheckLookup(st, imageName, localImageId) ==
  IF ShortCircuit(imageName)
    THEN CheckReturn(st, [hasUpdate |-> FALSE, error |-> <<"No image tag">>])
  ELSE IF CacheHit(st.cache, imageName, localImageId)
    THEN CheckReturn([st EXCEPT !.rq.cHit = TRUE], st.cache[imageName])
  ELSE [st EXCEPT !.rq =
          FetchDigest([st.rq EXCEPT !.cPinned =
                         isPinnedVersionTag(parseImageName(imageName).tag)],
                      imageName, "tag")]

\* checkImageUpdate(imageName, localImageId) is called: lines 262-285
CheckBegin(st, imageName, localImageId) ==
  CheckLookup([st EXCEPT
                 !.checks = @ + 1,
                 !.rq = [st.rq EXCEPT
                           !.cImg = imageName, !.cId = localImageId,
                           !.cSeq = st.checks + 1,
                           !.cNet = 0, !.cHit = FALSE, !.cResult = <<>>,
                           !.cRemote = 0, !.cLocal = 0, !.cHas = FALSE]],
              imageName, localImageId)

\* imageName.replace(':latest', ''): the first occurrence is removed
ReplaceColonLatest(s) ==
  LET n == Len(ColonLatest)
      at == {i \in 1..(Len(s) - n + 1) : SubSeq(s, i, i + n - 1) = ColonLatest}
  IN IF at = {} THEN s
     ELSE LET i == CHOOSE i \in at : \A j \in at : i <= j
          IN SubSeq(s, 1, i - 1) \o SubSeq(s, i + n, Len(s))

\* lines 297-303
MatchesName(repoTags, imageName) ==
  \E t \in repoTags :
    \/ t = imageName
    \/ (t = imageName \o ColonLatest /\ ~Includes(imageName, ":"))
    \/ (EndsWith(imageName, ColonLatest) /\ t = ReplaceColonLatest(imageName))

\* line 306
MatchesId(imgId, localImageId) ==
  imgId = localImageId \/ StripSha(imgId) = StripSha(localImageId)

\* lines 288-319: the digest of the first local image that matches by name
\* or by ID (0: none found)
LocalDigest(localImages, imageName, localImageId) ==
  LET hits == {i \in 1..Len(localImages) :
                 \/ MatchesName(localImages[i].RepoTags, imageName)
                 \/ MatchesId(localImages[i].Id, localImageId)}
  IN IF hits = {} THEN 0
     ELSE LET img == localImages[CHOOSE i \in hits : \A j \in hits : i <= j]
          IN IF Len(img.RepoDigests) > 0 THEN img.RepoDigests[1][2] ELSE 0

\* a variant that stores the result under the name fetched last
CheckStoreFetched(st, latestDigest) ==
  LET rq == st.rq
      hasUpdate ==
        rq.cHas \/ (latestDigest # 0 /\ rq.cRemote # 0 /\ latestDigest # rq.cRemote)
      result ==
        [ hasUpdate |-> hasUpdate, checkedAt |-> now,
          remoteDigest |-> rq.cRemote, localDigest |-> rq.cLocal,
          localImageId |-> rq.cId, latestDigest |-> latestDigest,
          isPinnedVersion |-> rq.cPinned, error |-> Null ]
  IN CheckReturn([st EXCEPT !.cache = CacheSet(st.cache, rq.cFetch, result)], result)

\* lines 347-361: the result is stored and returned
CheckStore(st, latestDigest) ==
  LET rq == st.rq
      hasUpdate ==
        rq.cHas \/ (latestDigest # 0 /\ rq.cRemote # 0 /\ latestDigest # rq.cRemote)
      result ==
        [ hasUpdate |-> hasUpdate, checkedAt |-> now,
          remoteDigest |-> rq.cRemote, localDigest |-> rq.cLocal,
          localImageId |-> rq.cId, latestDigest |-> latestDigest,
          isPinnedVersion |-> rq.cPinned, error |-> Null ]
  IN CheckReturn([st EXCEPT !.cache = CacheSet(st.cache, rq.cImg, result)], result)

\* a variant whose catch block reports no error
CheckCatchSilent(st, message) ==
  CheckReturn([st EXCEPT !.cache =
                 CacheSet(st.cache, st.rq.cImg,
                          [ hasUpdate |-> FALSE, checkedAt |-> now,
                            localImageId |-> st.rq.cId, error |-> Null ])],
              [ hasUpdate |-> FALSE, checkedAt |-> now,
                localImageId |-> st.rq.cId, error |-> Null ])

\* lines 362-372: the catch block
CheckCatch(st, message) ==
  LET result == [ hasUpdate |-> FALSE, checkedAt |-> now,
                  localImageId |-> st.rq.cId, error |-> message ]
  IN CheckReturn([st EXCEPT !.cache = CacheSet(st.cache, st.rq.cImg, result)],
                 result)


\* a variant whose inner catch throws the error on
FetchFailedThrows(st, message) == CheckCatch(st, message)

\* getRemoteDigest rejected: the catch block for the tag's own digest
\* (lines 362-372); for the latest digest the inner catch swallows the
\* error (lines 341-344) and the result is stored with latestDigest null
FetchFailed(st, message) ==
  IF st.rq.cStage = "tag" THEN CheckCatch(st, message) ELSE CheckStore(st, 0)

\* a variant that also asks for the latest tag of images of other registries
CheckLatestAnyRegistry(st, ref) ==
  IF ~st.rq.cHas /\ st.rq.cPinned
    THEN [st EXCEPT !.rq = FetchDigest(st.rq, ref.repository \o ColonLatest, "latest")]
    ELSE CheckStore(st, 0)

\* lines 327-345: the extra fetch of the repository's latest tag for a
\* pinned Docker Hub tag without an update of its own
CheckLatest(st, ref) ==
  IF ~st.rq.cHas /\ st.rq.cPinned /\ ref.registry = DockerHub
    THEN [st EXCEPT !.rq = FetchDigest(st.rq, ref.repository \o ColonLatest, "latest")]
    ELSE CheckStore(st, 0)

\* line 324: hasUpdate = !!(remoteDigest && localDigest &&
\*                          remoteDigest !== localDigest)
CheckDigests(st, localDigest) ==
  CheckLatest([st EXCEPT !.rq.cLocal = localDigest,
                         !.rq.cHas = /\ st.rq.cRemote # 0
                                     /\ localDigest # 0
                                     /\ st.rq.cRemote # localDigest],
              Parsed(st.rq.cImg))

\* lines 287-345: after listImages
CheckCompare(st, localImages) ==
  CheckDigests(st, LocalDigest(localImages, st.rq.cImg, st.rq.cId))

(***************************************************************************)
(* Container recreation: the code shared in shape by the single and the    *)
(* batch handler.                                                          *)
(***************************************************************************)
\* Object.keys(containerConfig).forEach(key => { if (containerConfig[key]
\*   === null || containerConfig[key] === undefined) delete ... })
DropNulls(config) ==
  [k \in {f \in DOMAIN config : config[f] # Null} |-> config[k]]

\* a variant that deletes every falsy value, the empty string included
containerConfigTruthy(info, targetImageName, containerName) ==
  [k \in {f \in ConfigFields \cup {"Image", "name", "HostConfig", "NetworkingConfig"} :
            LET v == IF f \in ConfigFields THEN info.Config[f]
                     ELSE IF f = "Image" THEN targetImageName
                     ELSE IF f = "name" THEN containerName
                     ELSE IF f = "HostConfig" THEN info.HostConfig
                     ELSE <<"EndpointsConfig">> \o info.Networks
            IN v # Null /\ v # <<"">>} |->
     IF k \in ConfigFields THEN info.Config[k]
     ELSE IF k = "Image" THEN targetImageName
     ELSE IF k = "name" THEN containerName
     ELSE IF k = "HostConfig" THEN info.HostConfig
     ELSE <<"EndpointsConfig">> \o info.Networks]

\* lines 783-819: the create options of the single update.  The object
\* { EndpointsConfig: x } is the sequence <<"EndpointsConfig">> \o x.
containerConfig(info, targetImageName, containerName) ==
  DropNulls(
    [f \in ConfigFields |-> info.Config[f]]
    @@ [ Image |-> targetImageName,
         name |-> containerName,
         HostConfig |-> info.HostConfig,
         NetworkingConfig |-> <<"EndpointsConfig">> \o info.Networks ])

\* lines 994-1027: the create options of the batch update
batchContainerConfig(info, targetImageName, containerName) ==
  DropNulls(
    [f \in ConfigFields |-> info.Config[f]]
    @@ [ Image |-> targetImageName,
         name |-> containerName,
         HostConfig |-> info.HostConfig,
         NetworkingConfig |-> <<"EndpointsConfig">> \o info.Networks ])


\* newImageId.substring(from0, to0) of "sha256:<hex>": the characters kept
IdSlice(id, from0, to0) == [of |-> id.hex, from |-> from0, to |-> to0]

\* an entry of the log, changed in place through the reference the handler
\* holds or the one Array.prototype.find returned
SetLog(logs, id, status, newImageId, message) ==
  [i \in 1..Len(logs) |->
     IF logs[i].id = id
       THEN [logs[i] EXCEPT !.status = status, !.newImageId = newImageId,
                            !.message = message]
       ELSE logs[i]]

\* lines 894-905: the catch block of the single update
SingleCatch(st, message) ==
  LET wanted == StringOf(st.logId - 1)
      found == {i \in 1..Len(st.logs) : st.logs[i].id = wanted}
      logs == [i \in 1..Len(st.logs) |->
                 IF i \in found
                   THEN [st.logs[i] EXCEPT
                           !.status = "failed",
                           !.message = <<"Failed to update: ", message>>]
                   ELSE st.logs[i]]
  IN [st EXCEPT
        !.logs = logs,
        !.rq = [st.rq EXCEPT !.pc = "done",
                  !.resp = << [ code |-> 500,
                                error |-> "Failed to update container",
                                details |-> message ] >>]]

\* a variant in which the first failure ends the whole run
BatchCatchAbort(st, message) ==
  [st EXCEPT !.rq = [st.rq EXCEPT !.pc = "done",
               !.resp = << [ code |-> 500,
                             error |-> "Failed to update containers",
                             details |-> message ] >>]]

\* lines 1052-1059: the catch block inside the batch loop
BatchCatch(st, message) ==
  LET rq == st.rq
      found == {i \in 1..Len(st.logs) :
                  /\ st.logs[i].containerName = rq.containerName
                  /\ st.logs[i].status = "in-progress"}
      first == CHOOSE i \in found : \A j \in found : i <= j
      logs == [i \in 1..Len(st.logs) |->
                 IF found # {} /\ i = first
                   THEN [st.logs[i] EXCEPT !.status = "failed",
                                           !.message = <<"Failed: ", message>>]
                   ELSE st.logs[i]]
  IN BatchNext([st EXCEPT
       !.logs = logs,
       !.rq = Push(rq, [ containerId |-> rq.containerId,
                         containerName |-> rq.containerName,
                         status |-> "failed", error |-> message ])])

Catch(st, message) ==
  IF st.rq.kind = "batch" THEN BatchCatch(st, message)
  ELSE SingleCatch(st, message)

\* a variant that takes a changed tag for a changed image
SingleSuccessByTag(st, newImageId) ==
  LET rq == st.rq
      tagChanged == rq.currentTag # rq.newTag
  IN [st EXCEPT
        !.cache = CacheDelete(CacheDelete(st.cache, rq.targetImageName),
                              rq.originalImageName),
        !.logs = SetLog(st.logs, rq.logId, "success",
                        IdSlice(newImageId, 0, 12), <<"Updated", "tag">>),
        !.rq = [rq EXCEPT !.pc = "done",
                  !.resp = << [ code |-> 200, success |-> TRUE,
                                imageChanged |-> tagChanged,
                                tagChanged |-> tagChanged,
                                log |-> rq.logId ] >>]]

\* lines 868-893: the single update succeeded
SingleSuccess(st, newImageId) ==
  LET rq == st.rq
      imageChanged == rq.info[1].Image # newImageId
      tagChanged == rq.currentTag # rq.newTag
      message == IF tagChanged THEN <<"Updated", "tag">>
                 ELSE IF imageChanged THEN <<"Updated", "image">>
                 ELSE <<"Recreated", "no changes">>
  IN [st EXCEPT
        !.cache = CacheDelete(CacheDelete(st.cache, rq.targetImageName),
                              rq.originalImageName),
        !.logs = SetLog(st.logs, rq.logId, "success",
                        IdSlice(newImageId, 0, 12), message),
        !.rq = [rq EXCEPT !.pc = "done",
                  !.resp = << [ code |-> 200, success |-> TRUE,
                                imageChanged |-> imageChanged,
                                tagChanged |-> tagChanged,
                                log |-> rq.logId ] >>]]

\* lines 1037-1051: one container of the batch succeeded
BatchSuccess(st, newImageId) ==
  LET rq == st.rq
  IN BatchNext([st EXCEPT
       !.logs = SetLog(st.logs, rq.logId, "success",
                       IdSlice(newImageId, 7, 19), <<"Updated", "tag">>),
       !.cache = CacheDelete(CacheDelete(st.cache, rq.originalImageName),
                             rq.targetImageName),
       !.rq = Push(rq, [ containerId |-> rq.containerId,
                         containerName |-> rq.containerName,
                         status |-> "success",
                         oldTag |-> rq.currentTag, newTag |-> rq.newTag ])])

\* lines 821-848: the self-update path of the single update
SelfUpdateDone(st) ==
  LET rq == st.rq
  IN [st EXCEPT
        !.cache = CacheDelete(CacheDelete(st.cache, rq.targetImageName),
                              rq.originalImageName),
        !.logs = SetLog(st.logs, rq.logId, "success", NoImageId,
                        <<"Image pulled", "restart manually">>),
        !.rq = [rq EXCEPT !.pc = "done",
                  !.resp = << [ code |-> 200, success |-> TRUE,
                                selfUpdate |-> TRUE,
                                manualRestartRequired |-> TRUE,
                                log |-> rq.logId ] >>]]

\* a variant that removes the old container without stopping it
AfterConfigNoStop(st, config) ==
  IF st.rq.kind = "single" /\ st.rq.isSelfUpdate
    THEN SelfUpdateDone([st EXCEPT !.rq.config = <<config>>])
    ELSE [st EXCEPT !.rq = Issue([st.rq EXCEPT !.config = <<config>>],
                                 "remove", st.rq.containerId, "remove")]

\* a variant in which the batch does not wait for the recreation of one
\* container before it turns to the next
AfterConfigNoAwait(st, config) ==
  IF st.rq.kind = "single" /\ st.rq.isSelfUpdate
    THEN SelfUpdateDone([st EXCEPT !.rq.config = <<config>>])
  ELSE IF st.rq.kind = "batch"
    THEN BatchNext([st EXCEPT !.rq = Issue([st.rq EXCEPT !.config = <<config>>],
                                           "stop", st.rq.containerId, "stop")])
  ELSE [st EXCEPT !.rq = Issue([st.rq EXCEPT !.config = <<config>>],
                               "stop", st.rq.containerId, "stop")]

\* lines 821-860 (single) and 1029-1030 (batch): the single update that
\* found itself stops here; otherwise the old container is stopped
AfterConfig(st, config) ==
  IF st.rq.kind = "single" /\ st.rq.isSelfUpdate
    THEN SelfUpdateDone([st EXCEPT !.rq.config = <<config>>])
    ELSE [st EXCEPT !.rq = Issue([st.rq EXCEPT !.config = <<config>>],
                                 "stop", st.rq.containerId, "stop")]

\* after the pull the create options are built
AfterPull(st) ==
  AfterConfig(st,
    IF st.rq.kind = "batch"
      THEN batchContainerConfig(st.rq.info[1], st.rq.targetImageName,
                                st.rq.containerName)
      ELSE containerConfig(st.rq.info[1], st.rq.targetImageName,
                           st.rq.containerName))

\* a variant that puts the new entry at the end of the log
SingleAfterOwnPush(st, ownId) ==
  [st EXCEPT
     !.rq = Issue([st.rq EXCEPT
                     !.ownId = ownId,
                     !.isSelfUpdate = GuardMatch(ownId, st.rq.containerId),
                     !.logId = StringOf(st.logId)],
                  "pull", st.rq.targetImageName, "pull"),
     !.logs = st.logs \o
              << LogEntry(st.logId, st.rq.containerName, st.rq.currentTag,
                          st.rq.newTag, <<"Updating", "">>) >>,
     !.logId = st.logId + 1]

\* lines 750-781: the guard, the log entry, and the pull is issued
SingleAfterOwn(st, ownId) ==
  [st EXCEPT
     !.rq = Issue([st.rq EXCEPT
                     !.ownId = ownId,
                     !.isSelfUpdate = GuardMatch(ownId, st.rq.containerId),
                     !.logId = StringOf(st.logId)],
                  "pull", st.rq.targetImageName, "pull"),
     !.logs = << LogEntry(st.logId, st.rq.containerName, st.rq.currentTag,
                          st.rq.newTag,
                          IF GuardMatch(ownId, st.rq.containerId)
                            THEN <<"Updating", "self-update">>
                            ELSE <<"Updating", "">>) >> \o st.logs,
     !.logId = st.logId + 1]

\* what follows `await getOwnContainerId()` in either handler
AfterOwn(st, ownId) ==
  IF st.rq.kind = "batch"
    THEN BatchNext([st EXCEPT !.rq.ownId = ownId])
    ELSE SingleAfterOwn(st, ownId)

\* lines 699-700: the memo of getOwnContainerId, else the cgroup file is
\* read after `await import('fs')`
GetOwnBegin(st) ==
  IF st.own # <<>> THEN AfterOwn(st, st.own)
  ELSE [st EXCEPT !.rq.pc = "own_cgroup"]

\* lines 745-748: newTag and targetImageName
SingleTarget(st, info, ref, newTag) ==
  GetOwnBegin([st EXCEPT !.rq =
    [st.rq EXCEPT !.info = <<info>>,
                  !.originalImageName = info.Config.Image,
                  !.containerName = StripSlash(info.Name),
                  !.currentTag = ref.tag, !.newTag = newTag,
                  !.targetImageName =
                    IF st.rq.targetTag # <<>> THEN TargetName(ref, newTag)
                    ELSE info.Config.Image]])

SingleParsed(st, info, ref) ==
  SingleTarget(st, info, ref,
               IF st.rq.targetTag # <<>> THEN st.rq.targetTag ELSE ref.tag)

\* lines 739-748: the names the single update works with
SingleAfterInspect(st, info) ==
  SingleParsed(st, info, parseImageName(info.Config.Image))

\* lines 925-936: the batch loop after inspect
BatchAfterInspect(st, info) ==
  LET rq == [st.rq EXCEPT !.info = <<info>>,
                          !.originalImageName = info.Config.Image]
      st1 == [st EXCEPT !.rq = rq]
  IN IF StartsWith(info.Config.Image, Sha256Prefix)
       THEN BatchNext([st EXCEPT !.rq =
              Push(rq, [ containerId |-> rq.containerId,
                         containerName |-> rq.containerName,
                         status |-> "skipped", message |-> "No image tag" ])])
       ELSE CheckBegin(st1, info.Config.Image, info.Image)


(***************************************************************************)
(* GET /api/containers/:id/logs: the decode loop over the multiplexed log   *)
(* stream (lines 570-596).  A buffer is a sequence of bytes; the byte at    *)
(* 0-based index i is element i + 1.  buffer.slice is Substring.            *)
(***************************************************************************)
\* the length of a frame header: [stream_type(1), 0, 0, 0, size(4)]
HeaderLen == 8

\* header.readUInt32BE(4): the 32-bit value of the four bytes from 0-based
\* position at0, big-endian, kept as its two 16-bit halves
ReadUInt32BE(b, at0) ==
  [ hi |-> b[at0 + 1] * 256 + b[at0 + 2],
    lo |-> b[at0 + 3] * 256 + b[at0 + 4] ]

\* size <= n for a 32-bit size and 0 <= n < 2^16 (no buffer here is longer)
AtMost(size, n) == size.hi = 0 /\ size.lo <= n

\* toString('utf8') on the ASCII bytes the model's payloads use
ToStringUtf8(bytes) ==
  [i \in 1..Len(bytes) |->
     CASE bytes[i] = 9 -> "\t" [] bytes[i] = 10 -> "\n" [] bytes[i] = 13 -> "\r"
       [] bytes[i] = 32 -> " " [] bytes[i] = 65 -> "A" [] bytes[i] = 66 -> "B"
       [] OTHER -> "?"]

\* String.prototype.trim()
Trim(s) ==
  LET black == {i \in 1..Len(s) : s[i] \notin {" ", "\t", "\n", "\r"}}
  IN IF black = {} THEN <<>>
     ELSE SubSeq(s, CHOOSE i \in black : \A j \in black : i <= j,
                    CHOOSE i \in black : \A j \in black : j <= i)

\* streamType === 1 ? 'stdout' : 'stderr'
StreamOf(streamType) == IF streamType = 1 THEN "stdout" ELSE "stderr"

\* the locals of the handler; reads keeps the buffer indices the loop has
\* read, iters the iterations it has made, sent and cut how the daemon made
\* the stream
IdleLogs ==
  [ pc |-> "idle", buffer |-> <<>>, offset |-> 0, logLines |-> <<>>,
    reads |-> {}, iters |-> 0, sent |-> <<>>, cut |-> 0, resp |-> <<>> ]

\* the loop condition: offset < buffer.length
LoopHead(lr) ==
  IF lr.offset < Len(lr.buffer) THEN [lr EXCEPT !.pc = "loop"]
  ELSE [lr EXCEPT !.pc = "respond"]

\* a variant that moves the offset by the size of the payload alone
DecodeFrameSizeOnly(lr, streamType, size, line) ==
  LoopHead([lr EXCEPT
    !.reads = @ \cup (lr.offset..(lr.offset + HeaderLen + size - 1)),
    !.logLines = IF line # <<>>
                   THEN Append(@, [stream |-> StreamOf(streamType),
                                   message |-> line])
                   ELSE @,
    !.offset = lr.offset + size])

\* lines 585-593: the payload is decoded and trimmed, a non-empty line is
\* pushed, and the offset moves past the frame
DecodeFrame(lr, streamType, size, line) ==
  LoopHead([lr EXCEPT
    !.reads = @ \cup (lr.offset..(lr.offset + HeaderLen + size - 1)),
    !.logLines = IF line # <<>>
                   THEN Append(@, [stream |-> StreamOf(streamType),
                                   message |-> line])
                   ELSE @,
    !.offset = lr.offset + HeaderLen + size])

\* lines 579-583: the header is read, and the loop ends at a frame whose
\* payload is not all there (offset + 8 + size > buffer.length)
DecodeHeader(lr, header) ==
  IF ~AtMost(ReadUInt32BE(header, 4), Len(lr.buffer) - lr.offset - HeaderLen)
    THEN [lr EXCEPT !.pc = "respond",
                    !.reads = @ \cup (lr.offset..(lr.offset + HeaderLen - 1))]
    ELSE DecodeFrame(lr, header[1], ReadUInt32BE(header, 4).lo,
           Trim(ToStringUtf8(Substring(lr.buffer, lr.offset + HeaderLen,
                  lr.offset + HeaderLen + ReadUInt32BE(header, 4).lo))))

\* a variant that takes whatever part of the payload is there
DecodeIterationPartial(lr) ==
  LET size == ReadUInt32BE(lr.buffer, lr.offset + 4)
      room == Len(lr.buffer) - lr.offset - HeaderLen
      take == IF AtMost(size, room) THEN size.lo ELSE room
  IN IF lr.offset + HeaderLen > Len(lr.buffer)
       THEN [lr EXCEPT !.pc = "respond"]
       ELSE DecodeFrame(lr, lr.buffer[lr.offset + 1], take,
              Trim(ToStringUtf8(Substring(lr.buffer, lr.offset + HeaderLen,
                     lr.offset + HeaderLen + take))))

\* a variant that reads the header of whatever is left
DecodeIterationAnyHeader(lr) ==
  IF lr.offset + HeaderLen > Len(lr.buffer)
    THEN [lr EXCEPT !.pc = "respond",
                    !.reads = @ \cup (lr.offset..(lr.offset + HeaderLen - 1))]
    ELSE DecodeHeader(lr, Substring(lr.buffer, lr.offset, lr.offset + HeaderLen))

\* lines 575-594: one iteration of the loop
DecodeIteration(lr) ==
  IF lr.offset + HeaderLen > Len(lr.buffer)
    THEN [lr EXCEPT !.pc = "respond"]
    ELSE DecodeHeader(lr, Substring(lr.buffer, lr.offset, lr.offset + HeaderLen))

(***************************************************************************)
(* A call of one of the pure helpers: parseImageName, isPinnedVersionTag,   *)
(* and the self-update guard expression of the two update handlers.         *)
(***************************************************************************)
NoCall == [fn |-> "none", args |-> <<>>, ret |-> <<>>, pc |-> "idle"]


(***************************************************************************)
(* The settings and the periodic check.  A value of settings.json or of a  *)
(* request body is a JSON value; ToNumber is the conversion `>` applies.   *)
(***************************************************************************)
JsNumber(n) == [t |-> "number", n |-> n, s |-> <<>>]
JsString(s) == [t |-> "string", n |-> 0, s |-> s]
JsNull == [t |-> "null", n |-> 0, s |-> <<>>]
JsTrue == [t |-> "boolean", n |-> 1, s |-> <<>>]
JsUndefined == [t |-> "undefined", n |-> 0, s |-> <<>>]

NaN == [nan |-> TRUE, n |-> 0]

\* the value of a decimal digit
DigitValue(c) ==
  CHOOSE d \in 0..9 :
    <<"0", "1", "2", "3", "4", "5", "6", "7", "8", "9">>[d + 1] = c

\* the number a string of digits denotes; acc is the value of what was read
RECURSIVE DecimalValue(_, _)
DecimalValue(s, acc) ==
  IF s = <<>> THEN acc
  ELSE DecimalValue(Tail(s), acc * 10 + DigitValue(Head(s)))

\* ToNumber: null is 0, true is 1, a string of digits its value, the empty
\* string 0, any other string and undefined NaN
ToNumber(v) ==
  IF v.t = "number" THEN [nan |-> FALSE, n |-> v.n]
  ELSE IF v.t = "null" THEN [nan |-> FALSE, n |-> 0]
  ELSE IF v.t = "boolean" THEN [nan |-> FALSE, n |-> v.n]
  ELSE IF v.t = "string" /\ \A i \in 1..Len(v.s) : v.s[i] \in Digits
    THEN [nan |-> FALSE, n |-> DecimalValue(v.s, 0)]
  ELSE NaN

\* v > 0
GreaterThanZero(v) == ~ToNumber(v).nan /\ ToNumber(v).n > 0

\* the module has been loaded: settings = {...defaultSettings, ...file}
\* (lines 29-36), periodicCheckInterval = null (line 1199; 0 stands for
\* null, timers are numbered from 1); timers are the intervals that run
Loaded(interval) ==
  [ pc |-> "loaded", checkInterval |-> interval, periodicCheckInterval |-> 0,
    timers |-> {}, made |-> 0, body |-> JsUndefined, puts |-> 0, runs |-> 0 ]

\* a variant that sets a new interval without clearing the one that runs
setupPeriodicCheckKeep(p) ==
  IF GreaterThanZero(p.checkInterval)
    THEN [p EXCEPT !.periodicCheckInterval = p.made + 1,
                   !.timers = @ \cup {p.made + 1},
                   !.made = @ + 1]
    ELSE [p EXCEPT !.periodicCheckInterval = 0]

\* setupPeriodicCheck (lines 1229-1242)
setupPeriodicCheck(p) ==
  LET off == IF p.periodicCheckInterval # 0
               THEN [p EXCEPT !.timers = @ \ {p.periodicCheckInterval},
                              !.periodicCheckInterval = 0]
               ELSE p
  IN IF GreaterThanZero(off.checkInterval)
       THEN [off EXCEPT !.periodicCheckInterval = off.made + 1,
                        !.timers = @ \cup {off.made + 1},
                        !.made = @ + 1]
       ELSE off

\* the pull-only handler before its request arrives
IdlePull ==
  [ pc |-> "idle", imageName |-> <<>>, calls |-> <<>>, resp |-> <<>>,
    keys |-> {} ]

\* no cache clear has been answered yet
NoClear == [done |-> FALSE, checks |-> 0, pending |-> {}, dropped |-> {}]

(***************************************************************************)
(* The initial state: a fleet of five containers, the server possibly      *)
(* running in the first of them.                                           *)
(***************************************************************************)
IdA == Cid("a", "1")
IdB == Cid("b", "2")
IdC == Cid("c", "3")
IdD == Cid("d", "4")
IdE == Cid("e", "5")

Fleet(aVer) ==
  << [ Id |-> IdA, Name |-> <<"/">> \o NameDm, Image |-> ImgA,
       ImageID |-> ImageId(aVer), Running |-> TRUE,
       Config |-> SparseConfig("dm"), HostConfig |-> <<"hc-dm">>,
       Networks |-> <<"bridge">> ],
     [ Id |-> IdB, Name |-> <<"/">> \o NameWeb, Image |-> ImgA1,
       ImageID |-> ImageId(1), Running |-> TRUE,
       Config |-> FullConfig("web"), HostConfig |-> <<"hc-web">>,
       Networks |-> <<"bridge", "backend">> ],
     [ Id |-> IdC, Name |-> <<"/">> \o NameDb, Image |-> ImgDigestOnly,
       ImageID |-> ImageId(15), Running |-> TRUE,
       Config |-> SparseConfig("db"), HostConfig |-> Null,
       Networks |-> Null ],
     [ Id |-> IdD, Name |-> <<"/">> \o NameOld, Image |-> ImgA,
       ImageID |-> ImageId(1), Running |-> TRUE,
       Config |-> FullConfig("old"), HostConfig |-> <<"hc-old">>,
       Networks |-> <<"bridge">> ],
     [ Id |-> IdE, Name |-> <<"/">> \o NameOff, Image |-> ImgA1,
       ImageID |-> ImageId(1), Running |-> FALSE,
       Config |-> FullConfig("off"), HostConfig |-> <<"hc-off">>,
       Networks |-> <<"bridge">> ] >>

LocalImages(aVer) ==
  LET a1 == <<"a", ":", "1">>
      aLatest == <<"a">> \o ColonLatest
      dangling == [Id |-> ImageId(15), RepoTags |-> {}, RepoDigests |-> <<>>]
  IN IF aVer = 1
       THEN << [ Id |-> ImageId(1), RepoTags |-> {a1, aLatest},
                 RepoDigests |-> << <<<<"a">>, 1>> >> ],
               dangling >>
       ELSE << [ Id |-> ImageId(aVer), RepoTags |-> {aLatest},
                 RepoDigests |-> << <<<<"a">>, aVer>> >> ],
               [ Id |-> ImageId(1), RepoTags |-> {a1},
                 RepoDigests |-> << <<<<"a">>, 1>> >> ],
               dangling >>


\* the fleet with the fourth container running the pinned image of the
\* second registry, and the local images with that image's tag
MirrorFleet(aVer) == [Fleet(aVer) EXCEPT ![4].Image = ImgElsewhere]

MirrorImages(aVer) ==
  [i \in 1..Len(LocalImages(aVer)) |->
     IF LocalImages(aVer)[i].Id = ImageId(1)
       THEN [LocalImages(aVer)[i] EXCEPT !.RepoTags = @ \cup {ImgElsewhere}]
       ELSE LocalImages(aVer)[i]]


\* the fleet with two running containers that have a tagged image, both
\* of the same image name: "dm" and "old" (with aVer = 1 also of the same
\* image ID)
TwinFleet(aVer) == [Fleet(aVer) EXCEPT ![2].Running = FALSE]

EnvModes == {"cgroup", "hostname", "custom", "host"}

\* the server has just started in one of the environments, with no
\* request in flight
ServerLoad(mode, fleet, imgs, latest, interval) ==
  /\ containers = fleet
  /\ images = imgs
  /\ regLatest = latest
  /\ created = 0
  /\ selfId = IF mode = "host" THEN <<>> ELSE IdA
  /\ cgroupId = IF mode = "cgroup" THEN IdA ELSE <<>>
  /\ hostname = IF mode \in {"cgroup", "hostname"}
                  THEN Substring(IdA, 0, ShortIdLen)
                  ELSE <<"h", "o", "s", "t">>
  /\ alive = TRUE
  /\ now = 0
  /\ ticks = 0
  /\ started = 0
  /\ faults = 0
  /\ checks = 0
  /\ updateCache = <<>>
  /\ updateLogs = <<>>
  /\ logIdCounter = 1
  /\ ownContainerId = <<>>
  /\ req = [r \in Slots |-> IdleReq]
  /\ pullReq = IdlePull
  /\ cleared = NoClear
  /\ periodic = Loaded(interval)


\* the same with the default settings (line 23: checkInterval 0)
ServerStart(mode, fleet, imgs, latest) ==
  ServerLoad(mode, fleet, imgs, latest, JsNumber(0))

ServerInit(mode, aVer, latest) ==
  ServerStart(mode, Fleet(aVer), LocalImages(aVer), latest)

Init ==
  \E mode \in EnvModes, aVer \in {1, 2}, latest \in {2} :
    /\ ServerInit(mode, aVer, latest)
    /\ logsReq = IdleLogs
    /\ call = NoCall

(***************************************************************************)
(* Requests arrive.                                                        *)
(***************************************************************************)
\* the requests of the clients: the own container by ID, by short ID and
\* by name, and another container with and without a target tag
UpdateInputs ==
  { <<IdA, <<>>>>, <<Substring(IdA, 0, ShortIdLen), <<>>>>, <<NameDm, <<>>>>,
    <<IdB, <<>>>>, <<IdB, Latest>> }

\* the handlers that are between two of their awaits
InFlight == {s \in Slots : req[s].pc \notin {"idle", "done"}}

CanStart(r) ==
  /\ alive
  /\ started < MaxReqs
  /\ Cardinality(InFlight) < MaxInFlight
  /\ req[r].pc \in {"idle", "done"}

\* POST /api/containers/:id/update, up to `await container.inspect()`
UpdateArrives(r, containerId, targetTag) ==
  /\ started' = started + 1
  /\ req' = [req EXCEPT ![r] =
       Issue([IdleReq EXCEPT !.kind = "single", !.containerId = containerId,
                             !.targetTag = targetTag],
             "inspect", containerId, "inspect")]
  /\ UNCHANGED << faults, checks, daemonVars, envVars, fnVars, adminVars, now, ticks, updateCache, updateLogs,
                  logIdCounter, ownContainerId >>

UpdateStart(r, containerId, targetTag) ==
  CanStart(r) /\ UpdateArrives(r, containerId, targetTag)

\* POST /api/containers/update-all, up to `await docker.listContainers()`
UpdateAllArrives(r) ==
  /\ started' = started + 1
  /\ req' = [req EXCEPT ![r] =
       Issue([IdleReq EXCEPT !.kind = "batch"], "list", <<>>, "list")]
  /\ UNCHANGED << faults, checks, daemonVars, envVars, fnVars, adminVars, now, ticks, updateCache, updateLogs,
                  logIdCounter, ownContainerId >>

UpdateAllStart(r) == CanStart(r) /\ UpdateAllArrives(r)

\* a detection call from a listing or periodic pass (lines 453-455,
\* 1208-1212): checkImageUpdate(container.Image, container.ImageID) for a
\* running container whose image is not named by a digest
CheckArrives(r, i) ==
  /\ i \in 1..Len(containers)
  /\ containers[i].Running
  /\ ~StartsWith(containers[i].Image, Sha256Prefix)
  /\ started' = started + 1
  /\ Apply(r, CheckBegin([Cur(r) EXCEPT !.rq = [IdleReq EXCEPT !.kind = "check"]],
                         containers[i].Image, containers[i].ImageID))
  /\ UNCHANGED << faults, daemonVars, envVars, fnVars, adminVars, now, ticks >>



CheckCall(r, i) == CanStart(r) /\ CheckArrives(r, i)

\* names without a tag, which the callers of checkImageUpdate filter out
\* (lines 454, 930, 1209) and the function itself answers at once
UntaggedNames == {<<>>, ImgDigestOnly}

\* checkImageUpdate called with such a name (lines 262-266)
CheckCallUntagged(r, imageName) ==
  /\ CanStart(r)
  /\ started' = started + 1
  /\ Apply(r, CheckBegin([Cur(r) EXCEPT !.rq = [IdleReq EXCEPT !.kind = "check"]],
                         imageName, NoImageId))
  /\ UNCHANGED << faults, daemonVars, envVars, fnVars, adminVars, now, ticks >>

(***************************************************************************)
(* Answers of the daemon and of the registry arrive.                       *)
(***************************************************************************)
Awaiting(r, pc) == alive /\ req[r].pc = pc

DaemonError == <<"daemon error">>

\* an answer that is an error: one the state of the daemon or registry
\* explains (natural), or one of the MaxFaults failures of the environment
Fault(natural) ==
  /\ natural \/ faults < MaxFaults
  /\ faults' = IF natural THEN faults ELSE faults + 1

NoFault == faults' = faults

\* update-all: the answer to docker.listContainers({ all: false })
ListAnswer(r) ==
  /\ Awaiting(r, "list")
  /\ \/ /\ NoFault
        /\ Apply(r, GetOwnBegin([Cur(r) EXCEPT
                      !.rq.list = ListOf(containers, FALSE)]))
     \/ /\ Fault(FALSE)
        /\ Apply(r, [Cur(r) EXCEPT
                      !.rq.pc = "done",
                      !.rq.resp = << [ code |-> 500,
                                       error |-> "Failed to update containers",
                                       details |-> DaemonError ] >>])
  /\ UNCHANGED << daemonVars, envVars, fnVars, adminVars, now, ticks, started >>

\* the answer to container.inspect() at the start of an update
InspectAnswer(r) ==
  /\ Awaiting(r, "inspect")
  /\ LET hit == Resolve(containers, req[r].containerId)
     IN \/ /\ hit # {}
           /\ NoFault
           /\ LET info == InspectOf(containers[CHOOSE i \in hit : TRUE])
              IN Apply(r, IF req[r].kind = "batch"
                            THEN BatchAfterInspect(Cur(r), info)
                            ELSE SingleAfterInspect(Cur(r), info))
        \/ /\ Fault(hit = {})
           /\ Apply(r, Catch([Cur(r) EXCEPT !.rq =
                                Failed(req[r], "inspect", req[r].containerId)],
                             IF hit = {} THEN <<"no such container">>
                             ELSE DaemonError))
  /\ UNCHANGED << daemonVars, envVars, fnVars, adminVars, now, ticks, started >>

\* getOwnContainerId, lines 702-724: the cgroup file, then the hostname
OwnCgroup(r) ==
  /\ Awaiting(r, "own_cgroup")
  /\ IF CgroupMatch # <<>>
       THEN Apply(r, AfterOwn([Cur(r) EXCEPT !.own = CgroupMatch], CgroupMatch))
     ELSE IF HostnameIsShortId
       THEN Apply(r, [Cur(r) EXCEPT !.rq.pc = "own_list"])
     ELSE Apply(r, AfterOwn(Cur(r), <<>>))
  /\ UNCHANGED << daemonVars, envVars, fnVars, adminVars, now, ticks, started, faults >>

\* getOwnContainerId, lines 717-727: the answer to listContainers
OwnListAnswer(r) ==
  /\ Awaiting(r, "own_list")
  /\ \/ /\ NoFault
        /\ LET id == FirstWithPrefix(ListOf(containers, TRUE), hostname)
           IN Apply(r, AfterOwn([Cur(r) EXCEPT
                                   !.own = IF id # <<>> THEN id ELSE @], id))
     \/ /\ Fault(FALSE)
        /\ Apply(r, AfterOwn(Cur(r), <<>>))
  /\ UNCHANGED << daemonVars, envVars, fnVars, adminVars, now, ticks, started >>

\* a variant that swallows the error of the pull as it does that of stop
PullAnswerSwallow(r) ==
  /\ Awaiting(r, "pull")
  /\ \/ /\ CanPull(req[r].targetImageName)
        /\ NoFault
        /\ images' = PullImage(images, req[r].targetImageName)
        /\ Apply(r, AfterPull(Cur(r)))
     \/ /\ Fault(~CanPull(req[r].targetImageName))
        /\ images' = images
        /\ Apply(r, AfterPull([Cur(r) EXCEPT !.rq =
                      Failed(req[r], "pull", req[r].targetImageName)]))
  /\ UNCHANGED << containers, created, alive, envVars, fnVars, adminVars, now, ticks, started >>

\* the answer to docker.pull(targetImageName) with followProgress
PullAnswer(r) ==
  /\ Awaiting(r, "pull")
  /\ \/ /\ CanPull(req[r].targetImageName)
        /\ NoFault
        /\ images' = PullImage(images, req[r].targetImageName)
        /\ Apply(r, AfterPull(Cur(r)))
     \/ /\ Fault(~CanPull(req[r].targetImageName))
        /\ images' = images
        /\ Apply(r, Catch([Cur(r) EXCEPT !.rq =
                             Failed(req[r], "pull", req[r].targetImageName)],
                          <<"pull failed">>))
  /\ UNCHANGED << containers, created, alive, envVars, fnVars, adminVars, now, ticks, started >>

\* the container a reference resolves to is there and running
RunningAt(cs, ref) ==
  \E i \in Resolve(cs, ref) : cs[i].Running

\* the answer to container.stop(); an error is swallowed (lines 853-858,
\* 1030).  A server that stops its own container is killed with it.  The
\* call also fails for a container that has exited on its own since it was
\* inspected ("container already stopped").
StopAnswer(r) ==
  /\ Awaiting(r, "stop")
  /\ \/ /\ RunningAt(containers, req[r].containerId)
        /\ NoFault
        /\ LET i == CHOOSE i \in Resolve(containers, req[r].containerId) : TRUE
           IN /\ containers' = [containers EXCEPT ![i].Running = FALSE]
              /\ alive' = (containers[i].Id # selfId)
        /\ Apply(r, [Cur(r) EXCEPT !.rq =
                       Issue(req[r], "remove", req[r].containerId, "remove")])
     \/ /\ Fault(~RunningAt(containers, req[r].containerId))
        /\ UNCHANGED << containers, alive >>
        /\ Apply(r, [Cur(r) EXCEPT !.rq =
                       Issue(Failed(req[r], "stop", req[r].containerId),
                             "remove", req[r].containerId, "remove")])
     \/ /\ RunningAt(containers, req[r].containerId)
        /\ Fault(FALSE)
        /\ LET i == CHOOSE i \in Resolve(containers, req[r].containerId) : TRUE
           IN /\ containers[i].Id # selfId
              /\ containers' = [containers EXCEPT ![i].Running = FALSE]
        /\ alive' = alive
        /\ Apply(r, [Cur(r) EXCEPT !.rq =
                       Issue(Failed(req[r], "stop", req[r].containerId),
                             "remove", req[r].containerId, "remove")])
  /\ UNCHANGED << images, created, envVars, fnVars, adminVars, now, ticks, started >>

\* the answer to container.remove(): a running container is not removed
RemoveAnswer(r) ==
  /\ Awaiting(r, "remove")
  /\ LET hit == Resolve(containers, req[r].containerId)
     IN \/ /\ hit # {}
           /\ ~RunningAt(containers, req[r].containerId)
           /\ NoFault
           /\ containers' = RemoveAt(containers, CHOOSE i \in hit : TRUE)
           /\ Apply(r, [Cur(r) EXCEPT !.rq =
                          Issue(req[r], "create", req[r].containerId, "create")])
        \/ /\ Fault(hit = {} \/ RunningAt(containers, req[r].containerId))
           /\ UNCHANGED containers
           /\ Apply(r, Catch([Cur(r) EXCEPT !.rq =
                                Failed(req[r], "remove", req[r].containerId)],
                             IF hit = {} THEN <<"no such container">>
                             ELSE DaemonError))
  /\ UNCHANGED << images, created, alive, envVars, fnVars, adminVars, now, ticks, started >>

\* the name of the create options is that of an existing container
NameTaken(cs, name) ==
  \E i \in 1..Len(cs) : cs[i].Name = <<"/">> \o name

\* a variant that does not start the container it created
CreateAnswerNoStart(r) ==
  /\ Awaiting(r, "create")
  /\ created < MaxCreated
  /\ LET config == req[r].config[1]
         img == LocalImageOf(images, config.Image)
         id == FreshCid(created + 1)
     IN \/ /\ img # {} /\ ~NameTaken(containers, config.name)
           /\ NoFault
           /\ containers' =
                << NewContainer(config, id, images[CHOOSE i \in img : TRUE].Id) >>
                \o containers
           /\ created' = created + 1
           /\ Apply(r, [Cur(r) EXCEPT !.rq =
                          Issue([req[r] EXCEPT !.newId = id], "inspect", id,
                                "inspect_new")])
        \/ /\ Fault(img = {} \/ NameTaken(containers, config.name))
           /\ UNCHANGED << containers, created >>
           /\ Apply(r, Catch([Cur(r) EXCEPT !.rq =
                                Failed(req[r], "create", req[r].containerId)],
                             IF NameTaken(containers, config.name)
                               THEN <<"name in use">> ELSE DaemonError))
  /\ UNCHANGED << images, alive, envVars, fnVars, adminVars, now, ticks, started >>

\* the answer to docker.createContainer(containerConfig)
CreateAnswer(r) ==
  /\ Awaiting(r, "create")
  /\ created < MaxCreated
  /\ LET config == req[r].config[1]
         img == LocalImageOf(images, config.Image)
         id == FreshCid(created + 1)
     IN \/ /\ img # {} /\ ~NameTaken(containers, config.name)
           /\ NoFault
           /\ containers' =
                << NewContainer(config, id, images[CHOOSE i \in img : TRUE].Id) >>
                \o containers
           /\ created' = created + 1
           /\ Apply(r, [Cur(r) EXCEPT !.rq =
                          Issue([req[r] EXCEPT !.newId = id], "start", id, "start")])
        \/ /\ Fault(img = {} \/ NameTaken(containers, config.name))
           /\ UNCHANGED << containers, created >>
           /\ Apply(r, Catch([Cur(r) EXCEPT !.rq =
                                Failed(req[r], "create", req[r].containerId)],
                             IF NameTaken(containers, config.name)
                               THEN <<"name in use">> ELSE DaemonError))
  /\ UNCHANGED << images, alive, envVars, fnVars, adminVars, now, ticks, started >>

\* the answer to newContainer.start()
StartAnswer(r) ==
  /\ Awaiting(r, "start")
  /\ LET hit == Resolve(containers, req[r].newId)
     IN \/ /\ hit # {}
           /\ NoFault
           /\ containers' =
                [containers EXCEPT ![CHOOSE i \in hit : TRUE].Running = TRUE]
           /\ Apply(r, [Cur(r) EXCEPT !.rq =
                          Issue(req[r], "inspect", req[r].newId, "inspect_new")])
        \/ /\ Fault(hit = {})
           /\ UNCHANGED containers
           /\ Apply(r, Catch([Cur(r) EXCEPT !.rq =
                                Failed(req[r], "start", req[r].newId)],
                             DaemonError))
  /\ UNCHANGED << images, created, alive, envVars, fnVars, adminVars, now, ticks, started >>

\* the answer to newContainer.inspect()
InspectNewAnswer(r) ==
  /\ Awaiting(r, "inspect_new")
  /\ LET hit == Resolve(containers, req[r].newId)
     IN \/ /\ hit # {}
           /\ NoFault
           /\ LET newImageId == containers[CHOOSE i \in hit : TRUE].ImageID
              IN Apply(r, IF req[r].kind = "batch"
                            THEN BatchSuccess(Cur(r), newImageId)
                            ELSE SingleSuccess(Cur(r), newImageId))
        \/ /\ Fault(hit = {})
           /\ Apply(r, Catch([Cur(r) EXCEPT !.rq =
                                Failed(req[r], "inspect", req[r].newId)],
                             DaemonError))
  /\ UNCHANGED << daemonVars, envVars, fnVars, adminVars, now, ticks, started >>

\* getDockerHubToken answers (lines 105-123); the request has no timeout,
\* so it may also never answer.  A failure while the tag's own digest is
\* fetched ends in the catch block; one while the latest digest is fetched
\* is swallowed (lines 341-344).
TokenAnswer(r) ==
  /\ Awaiting(r, "c_token")
  /\ \/ /\ NoFault
        /\ Apply(r, [Cur(r) EXCEPT !.rq.pc = "c_manifest", !.rq.cNet = @ + 1])
     \/ /\ Fault(FALSE)
        /\ Apply(r, FetchFailed(Cur(r), <<"token request failed">>))
  /\ UNCHANGED << daemonVars, envVars, fnVars, adminVars, now, ticks, started >>

\* the digest the registry serves for the name being fetched (0: none)
Served(name) == RemoteDigestOf(Parsed(name))

\* the manifest request of getRemoteDigest answers, fails or times out
\* (lines 203-238)
ManifestAnswer(r) ==
  /\ Awaiting(r, "c_manifest")
  /\ \/ /\ Served(req[r].cFetch) # 0
        /\ NoFault
        /\ Apply(r, IF req[r].cStage = "tag"
                      THEN [Cur(r) EXCEPT !.rq.cRemote = Served(req[r].cFetch),
                                          !.rq.cNet = @ + 1,
                                          !.rq.pc = "c_images"]
                      ELSE CheckStore(Cur(r), Served(req[r].cFetch)))
     \/ /\ Fault(Served(req[r].cFetch) = 0)
        /\ Apply(r, FetchFailed(Cur(r),
                               IF Served(req[r].cFetch) = 0
                                 THEN <<"Image not found in registry">>
                                 ELSE <<"Request timeout">>))
  /\ UNCHANGED << daemonVars, envVars, fnVars, adminVars, now, ticks, started >>

\* the answer to docker.listImages({ all: true }) (line 287)
ImagesAnswer(r) ==
  /\ Awaiting(r, "c_images")
  /\ \/ /\ NoFault
        /\ Apply(r, CheckCompare(Cur(r), images))
     \/ /\ Fault(FALSE)
        /\ Apply(r, CheckCatch(Cur(r), DaemonError))
  /\ UNCHANGED << daemonVars, envVars, fnVars, adminVars, now, ticks, started >>

\* decodeURIComponent on the escapes an image name needs: %2F and %3A
RECURSIVE DecodeURIComponent(_)
DecodeURIComponent(s) ==
  IF s = <<>> THEN <<>>
  ELSE IF Len(s) >= 3 /\ SubSeq(s, 1, 3) = <<"%", "2", "F">>
    THEN <<"/">> \o DecodeURIComponent(SubSeq(s, 4, Len(s)))
  ELSE IF Len(s) >= 3 /\ SubSeq(s, 1, 3) = <<"%", "3", "A">>
    THEN <<":">> \o DecodeURIComponent(SubSeq(s, 4, Len(s)))
  ELSE <<Head(s)>> \o DecodeURIComponent(Tail(s))

\* the :imageName of the pull requests: the images of the fleet under
\* their three names, and an image no registry knows
PullInputs ==
  { <<"a">>, <<"a", "%", "3", "A", "1">>,
    <<"l","i","b","r","a","r","y","%","2","F","a">>, <<"b">> }

\* POST /api/images/:imageName/pull, up to the await of docker.pull
PullOnlyStart(param) ==
  /\ alive
  /\ pullReq.pc = "idle"
  /\ pullReq' = [pullReq EXCEPT
                   !.pc = "pull",
                   !.imageName = DecodeURIComponent(param),
                   !.calls = << [op |-> "pull", target |-> DecodeURIComponent(param)] >>]
  /\ UNCHANGED << serverVars, fnVars, cleared, periodic >>

\* a variant that drops the whole cache after a pull, and also when the
\* pull failed
PullOnlyAnswerClearAll ==
  /\ alive
  /\ pullReq.pc = "pull"
  /\ \/ /\ CanPull(pullReq.imageName)
        /\ NoFault
        /\ images' = PullImage(images, pullReq.imageName)
        /\ pullReq' = [pullReq EXCEPT !.pc = "done", !.keys = DOMAIN updateCache,
                         !.resp = << [code |-> 200, success |-> TRUE] >>]
     \/ /\ Fault(~CanPull(pullReq.imageName))
        /\ images' = images
        /\ pullReq' = [pullReq EXCEPT !.pc = "done", !.keys = DOMAIN updateCache,
                         !.resp = << [code |-> 500, error |-> "Failed to pull image"] >>]
  /\ updateCache' = <<>>
  /\ UNCHANGED << containers, created, alive, envVars, fnVars, cleared, periodic, now, ticks,
                  started, checks, updateLogs, logIdCounter, ownContainerId, req >>

\* lines 610-631: the pull has ended; the cache entry of the image is
\* deleted after a pull that succeeded
PullOnlyAnswer ==
  /\ alive
  /\ pullReq.pc = "pull"
  /\ \/ /\ CanPull(pullReq.imageName)
        /\ NoFault
        /\ images' = PullImage(images, pullReq.imageName)
        /\ updateCache' = CacheDelete(updateCache, pullReq.imageName)
        /\ pullReq' = [pullReq EXCEPT !.pc = "done", !.keys = DOMAIN updateCache,
                         !.resp = << [code |-> 200, success |-> TRUE] >>]
     \/ /\ Fault(~CanPull(pullReq.imageName))
        /\ UNCHANGED << images, updateCache >>
        /\ pullReq' = [pullReq EXCEPT !.pc = "done", !.keys = DOMAIN updateCache,
                         !.resp = << [code |-> 500, error |-> "Failed to pull image"] >>]
  /\ UNCHANGED << containers, created, alive, envVars, fnVars, cleared, periodic, now, ticks,
                  started, checks, updateLogs, logIdCounter, ownContainerId, req >>

\* POST /api/cache/clear
CacheClear ==
  /\ alive
  /\ updateCache # <<>>
  /\ updateCache' = <<>>
  /\ UNCHANGED << faults, checks, daemonVars, envVars, fnVars, adminVars, now, ticks, started, updateLogs,
                  logIdCounter, ownContainerId, req >>



\* DELETE /api/logs: updateLogs.length = 0
LogsClear ==
  /\ alive
  /\ updateLogs # <<>>
  /\ updateLogs' = <<>>
  /\ UNCHANGED << faults, checks, daemonVars, envVars, fnVars, adminVars, now, ticks,
                  started, updateCache, logIdCounter, ownContainerId, req >>

\* the image names whose checkImageUpdate call is between two awaits
CheckPending ==
  {req[r].cImg : r \in {s \in Slots : req[s].pc \in {"c_token", "c_manifest", "c_images",
                                                     "c_token_stalled",
                                                     "c_manifest_stalled"}}}

\* a variant that answers without dropping anything
CacheClearAnswerKeep ==
  /\ alive
  /\ ~cleared.done
  /\ cleared' = [ done |-> TRUE, checks |-> checks, pending |-> CheckPending,
                  dropped |-> DOMAIN updateCache ]
  /\ UNCHANGED << faults, checks, daemonVars, envVars, fnVars, pullReq, periodic, now, ticks,
                  started, updateCache, updateLogs, logIdCounter, ownContainerId, req >>

\* POST /api/cache/clear is answered; cleared keeps how many detection calls
\* had been made by then, which of them were still running and which keys
\* the cache had
CacheClearAnswer ==
  /\ alive
  /\ ~cleared.done
  /\ updateCache' = <<>>
  /\ cleared' = [ done |-> TRUE, checks |-> checks, pending |-> CheckPending,
                  dropped |-> DOMAIN updateCache ]
  /\ UNCHANGED << faults, checks, daemonVars, envVars, fnVars, pullReq, periodic, now, ticks,
                  started, updateLogs, logIdCounter, ownContainerId, req >>

\* a request of getRemoteDigest gets no answer.  The token request (lines
\* 110-122) has no timer, so nothing ends it.
TokenStall(r) ==
  /\ Awaiting(r, "c_token")
  /\ Fault(FALSE)
  /\ Apply(r, [Cur(r) EXCEPT !.rq.pc = "c_token_stalled"])
  /\ UNCHANGED << daemonVars, envVars, fnVars, adminVars, now, ticks, started >>

\* the manifest request gets no answer
ManifestStall(r) ==
  /\ Awaiting(r, "c_manifest")
  /\ Fault(FALSE)
  /\ Apply(r, [Cur(r) EXCEPT !.rq.pc = "c_manifest_stalled"])
  /\ UNCHANGED << daemonVars, envVars, fnVars, adminVars, now, ticks, started >>

\* lines 233-236: req.setTimeout(15000, ...) ends the manifest request
ManifestTimeout(r) ==
  /\ Awaiting(r, "c_manifest_stalled")
  /\ NoFault
  /\ Apply(r, FetchFailed(Cur(r), <<"Request timeout">>))
  /\ UNCHANGED << daemonVars, envVars, fnVars, adminVars, now, ticks, started >>

\* time passes: half a TTL or a whole TTL at once
TickSteps == {TickMs, CACHE_TTL}

Tick(d) ==
  /\ alive
  /\ ticks < MaxTicks
  /\ ticks' = ticks + 1
  /\ now' = now + d
  /\ UNCHANGED << faults, checks, daemonVars, envVars, fnVars, adminVars, started, updateCache, updateLogs,
                  logIdCounter, ownContainerId, req >>

Next ==
  \/ \E in \in UpdateInputs : UpdateStart("u1", in[1], in[2])
  \/ UpdateAllStart("b1")
  \/ \E i \in 1..MaxListed : CheckCall("k1", i)
  \/ \E r \in Slots :
       \/ ListAnswer(r)
       \/ InspectAnswer(r)
       \/ OwnCgroup(r)
       \/ OwnListAnswer(r)
       \/ PullAnswer(r)
       \/ StopAnswer(r)
       \/ RemoveAnswer(r)
       \/ CreateAnswer(r)
       \/ StartAnswer(r)
       \/ InspectNewAnswer(r)
       \/ TokenAnswer(r)
       \/ ManifestAnswer(r)
       \/ ImagesAnswer(r)
  \/ CacheClear
  \/ \E d \in TickSteps : Tick(d)

Spec == Init /\ [][Next]_vars



(***************************************************************************)
(* The log request on its own: the daemon answers container.logs() with a   *)
(* stream of frames, cut at any byte and possibly ending in a frame that    *)
(* announces more than follows; the handler decodes it.                     *)
(***************************************************************************)
\* frames in a log stream
MaxFrames == 2

RECURSIVE StringsUpTo(_, _)
\* the sequences over an alphabet with at most n elements
StringsUpTo(alphabet, n) ==
  IF n = 0 THEN {<<>>}
  ELSE StringsUpTo(alphabet, n - 1)
       \cup { <<c>> \o s : c \in alphabet,
                           s \in {t \in StringsUpTo(alphabet, n - 1) :
                                    Len(t) = n - 1} }

\* frames of the streams stdin, stdout and stderr whose payload is empty,
\* a blank, "A\n" or " B"; text is the line the payload holds
LogFrames ==
  { [type |-> t, payload |-> p[1], text |-> p[2]] :
      t \in {0, 1, 2},
      p \in { << <<>>, <<>> >>, << <<32>>, <<>> >>,
              << <<65, 10>>, <<"A">> >>, << <<32, 66>>, <<"B">> >> } }

RECURSIVE Encode(_)
\* the frames as the daemon writes them: type, three zero bytes, the
\* payload length in four bytes, the payload
Encode(fs) ==
  IF fs = <<>> THEN <<>>
  ELSE << Head(fs).type, 0, 0, 0, 0, 0, Len(Head(fs).payload) \div 256,
          Len(Head(fs).payload) % 256 >>
       \o Head(fs).payload \o Encode(Tail(fs))

\* the end of a stream: nothing, or a header that announces more payload
\* than follows it (2^32 - 1 bytes, or two)
StreamTails ==
  { <<>>,
    <<1, 0, 0, 0, 255, 255, 255, 255, 65>>,
    <<2, 0, 0, 0, 0, 0, 0, 2, 66>> }

LogsInit ==
  /\ ServerInit("host", 2, 2)
  /\ call = NoCall
  /\ \E fs \in StringsUpTo(LogFrames, MaxFrames), tail \in StreamTails :
       \E cut \in 0..Len(Encode(fs) \o tail) :
         logsReq = LoopHead([IdleLogs EXCEPT
                     !.buffer = SubSeq(Encode(fs) \o tail, 1, cut),
                     !.sent = fs, !.cut = cut])

\* one iteration of the while loop
DecodeStep ==
  /\ logsReq.pc = "loop"
  /\ logsReq' = [DecodeIteration(logsReq) EXCEPT !.iters = @ + 1]
  /\ UNCHANGED << serverVars, call, adminVars >>

\* res.json({ logs: logLines })
LogsRespond ==
  /\ logsReq.pc = "respond"
  /\ logsReq' = [logsReq EXCEPT !.pc = "done",
                   !.resp = << [code |-> 200, logs |-> logsReq.logLines] >>]
  /\ UNCHANGED << serverVars, call, adminVars >>

LogsNext == DecodeStep \/ LogsRespond

LogsSpec == LogsInit /\ [][LogsNext]_vars

(***************************************************************************)
(* The pure helpers on their own: one call with arguments from bounded      *)
(* sets of strings.                                                         *)
(***************************************************************************)
\* the longest image name and the longest tag built from the alphabets
MaxNameLen == 4
MaxTagLen == 3

\* image names: the strings over a letter, dot, colon and slash, and the
\* names the documentation lists
ImageNames ==
  StringsUpTo({"a", ".", ":", "/"}, MaxNameLen)
  \cup { <<"n","g","i","n","x">>,
         <<"m","y","r","e","g","i","s","t","r","y",".","i","o",":","5","0","0","0","/","a","p","p",":","v","1",".","2",".","3">>,
         <<"g","h","c","r",".","i","o","/","o","r","g","/","a","p","p">> }

\* tags: the strings over some letters, a digit, dot and dash, the dynamic
\* tags (also in upper and mixed case), and the tags the documentation lists
Tags ==
  StringsUpTo({"v", "1", ".", "-", "r", "c", "R"}, MaxTagLen)
  \cup dynamicTags
  \cup { <<"1",".","2","2",".","4">>, <<"v","2",".","0",".","0","-","r","c","1">>,
         <<"L","A","T","E","S","T">>, <<"N","i","g","h","t","l","y">> }

\* what getOwnContainerId returns: a full ID, or null
OwnIds ==
  {s \in StringsUpTo({"a", "b", "1"}, IdLen) : Len(s) = IdLen} \cup {<<>>}

\* what a handler compares it with: the :id of the request (an ID, a short
\* ID or a name) or the Id of a listed container
TargetIds == (StringsUpTo({"a", "b", "1"}, IdLen) \ {<<>>}) \cup {NameDm}

HelperInit ==
  /\ ServerInit("host", 2, 2)
  /\ logsReq = IdleLogs
  /\ \E fn \in {"parseImageName", "isPinnedVersionTag", "isSelfUpdate"} :
       \E args \in IF fn = "parseImageName" THEN {<<n>> : n \in ImageNames}
                   ELSE IF fn = "isPinnedVersionTag" THEN {<<t>> : t \in Tags}
                   ELSE OwnIds \X TargetIds :
         call = [NoCall EXCEPT !.fn = fn, !.args = args, !.pc = "called"]

\* the call returns
Return(value) ==
  /\ call' = [call EXCEPT !.ret = <<value>>, !.pc = "returned"]
  /\ UNCHANGED << serverVars, logsReq, adminVars >>

ParseReturn ==
  /\ call.pc = "called" /\ call.fn = "parseImageName"
  /\ Return(parseImageName(call.args[1]))

PinnedReturn ==
  /\ call.pc = "called" /\ call.fn = "isPinnedVersionTag"
  /\ Return(isPinnedVersionTag(call.args[1]))

\* isSelfUpdate = ownId && (...), lines 752 and 943
GuardReturn ==
  /\ call.pc = "called" /\ call.fn = "isSelfUpdate"
  /\ Return(GuardMatch(call.args[1], call.args[2]))

HelperNext == ParseReturn \/ PinnedReturn \/ GuardReturn

HelperSpec == HelperInit /\ [][HelperNext]_vars



(***************************************************************************)
(* Update requests that overlap: a single update and an update-all, each   *)
(* running between the awaits of the other, and the log being cleared.     *)
(***************************************************************************)
\* an update request starts while another handler is between two awaits
CanStartBeside(r) ==
  /\ alive
  /\ started < MaxReqs
  /\ Cardinality(InFlight) < MaxRacing
  /\ req[r].pc \in {"idle", "done"}

RaceUpdateStart(r, containerId, targetTag) ==
  CanStartBeside(r) /\ UpdateArrives(r, containerId, targetTag)

RaceUpdateAllStart(r) == CanStartBeside(r) /\ UpdateAllArrives(r)

RaceInit ==
  /\ ServerInit("host", 2, 2)
  /\ logsReq = IdleLogs
  /\ call = NoCall

\* the requests that meet: those of UpdateInputs, and the other container
\* by its name
RaceInputs == UpdateInputs \cup { <<NameWeb, <<>>>> }

RaceNext ==
  \/ \E in \in RaceInputs : RaceUpdateStart("u1", in[1], in[2])
  \/ \E in \in RaceInputs : RaceUpdateStart("u2", in[1], in[2])
  \/ RaceUpdateAllStart("b1")
  \/ \E r \in Slots :
       \/ ListAnswer(r)
       \/ InspectAnswer(r)
       \/ OwnCgroup(r)
       \/ PullAnswer(r)
       \/ StopAnswer(r)
       \/ RemoveAnswer(r)
       \/ CreateAnswer(r)
       \/ StartAnswer(r)
       \/ InspectNewAnswer(r)
       \/ TokenAnswer(r)
       \/ ManifestAnswer(r)
       \/ ImagesAnswer(r)
  \/ LogsClear

RaceSpec == RaceInit /\ [][RaceNext]_vars

(***************************************************************************)
(* Detection and the maintenance handlers: detection calls, cache clear    *)
(* and pull-only against registries that answer, fail or stall.            *)
(***************************************************************************)
\* the digests the registry may serve for the latest tag (0: no such tag)
LatestDigests == {0, 1, 2}

CacheInit ==
  \E aVer \in {1, 2}, latest \in LatestDigests :
    /\ ServerStart("host", MirrorFleet(aVer), MirrorImages(aVer), latest)
    /\ logsReq = IdleLogs
    /\ call = NoCall

CacheNext ==
  \/ \E i \in 1..MaxListed : CheckCall("k1", i)
  \/ \E n \in UntaggedNames : CheckCallUntagged("k1", n)
  \/ \E r \in Slots :
       \/ TokenAnswer(r)
       \/ TokenStall(r)
       \/ ManifestAnswer(r)
       \/ ManifestStall(r)
       \/ ManifestTimeout(r)
       \/ ImagesAnswer(r)
  \/ CacheClearAnswer
  \/ \E param \in PullInputs : PullOnlyStart(param)
  \/ PullOnlyAnswer
  \/ \E d \in TickSteps : Tick(d)

CacheSpec == CacheInit /\ [][CacheNext]_vars

(***************************************************************************)
(* Detection alone, for what it does in the end: the detection calls and   *)
(* the answers, failures, stalls and timeouts of their requests.           *)
(***************************************************************************)
FetchNext ==
  \/ \E i \in 1..MaxListed : CheckCall("k1", i)
  \/ \E r \in Slots :
       \/ TokenAnswer(r)
       \/ TokenStall(r)
       \/ ManifestAnswer(r)
       \/ ManifestStall(r)
       \/ ManifestTimeout(r)
       \/ ImagesAnswer(r)

\* a request that has not stalled is answered, the timer of the manifest
\* request fires, and the daemon answers listImages
FetchSpec ==
  /\ CacheInit
  /\ [][FetchNext]_vars
  /\ WF_vars(\E r \in Slots : TokenAnswer(r))
  /\ WF_vars(\E r \in Slots : ManifestAnswer(r))
  /\ WF_vars(\E r \in Slots : ManifestTimeout(r))
  /\ WF_vars(\E r \in Slots : ImagesAnswer(r))


(***************************************************************************)
(* GET /api/containers: the checks of one listing are dispatched together  *)
(* (Promise.all over containers.map, lines 447-461); each runs up to its   *)
(* first await before any of their requests is answered.                   *)
(***************************************************************************)
\* the slots the checks of a listing run in
PassSlots == <<"k1", "k2">>

\* the listed containers a check is dispatched for (line 454), in order
RECURSIVE Checkable(_)
Checkable(i) ==
  IF i > Len(containers) THEN <<>>
  ELSE IF containers[i].Running /\ ~StartsWith(containers[i].Image, Sha256Prefix)
    THEN <<i>> \o Checkable(i + 1)
  ELSE Checkable(i + 1)

\* the calls of checkImageUpdate for the containers in the list `is`, each
\* up to its first await, one after the other
RECURSIVE Dispatch(_, _, _)
Dispatch(st, is, k) ==
  IF k > Len(is) THEN st
  ELSE LET begun == CheckBegin([st.all EXCEPT !.rq = [IdleReq EXCEPT !.kind = "check"]],
                               containers[is[k]].Image, containers[is[k]].ImageID)
       IN Dispatch([all |-> begun,
                    rqs |-> [st.rqs EXCEPT ![PassSlots[k]] = begun.rq]],
                   is, k + 1)

\* the listing has answered and the map over it has run
ListFanOut ==
  /\ alive
  /\ started < MaxReqs
  /\ \A k \in 1..Len(PassSlots) : req[PassSlots[k]].pc \in {"idle", "done"}
  /\ Len(Checkable(1)) = Len(PassSlots)
  /\ started' = started + 1
  /\ LET st == Dispatch([all |-> Cur(PassSlots[1]), rqs |-> req], Checkable(1), 1)
     IN /\ req' = st.rqs
        /\ updateCache' = st.all.cache
        /\ checks' = st.all.checks
  /\ UNCHANGED << updateLogs, logIdCounter, ownContainerId, faults, daemonVars,
                  envVars, fnVars, adminVars, now, ticks >>

PassInit ==
  /\ \E aVer \in {1, 2} : \E latest \in LatestDigests :
       ServerStart("host", TwinFleet(aVer), LocalImages(aVer), latest)
  /\ logsReq = IdleLogs
  /\ call = NoCall

PassNext ==
  \/ ListFanOut
  \/ \E r \in Slots :
       \/ TokenAnswer(r)
       \/ ManifestAnswer(r)
       \/ ImagesAnswer(r)
  \/ CacheClearAnswer
  \/ \E param \in PullInputs : PullOnlyStart(param)
  \/ PullOnlyAnswer
  \/ \E d \in TickSteps : Tick(d)

PassSpec == PassInit /\ [][PassNext]_vars


(***************************************************************************)
(* Detection, update, detection: a container is checked, updated without a *)
(* target tag, and checked again, against a registry that does not change. *)
(***************************************************************************)
\* the first detection, for any running container with a tagged image
FirstCheck(i) ==
  /\ alive
  /\ \A r \in {"k1", "u1", "k2"} : req[r].pc = "idle"
  /\ CheckArrives("k1", i)

\* POST /api/containers/:id/update without a body for the container the
\* detection was for
ThenUpdate(i) ==
  /\ alive
  /\ req["k1"].pc = "done" /\ req["u1"].pc = "idle"
  /\ i \in 1..Len(containers)
  /\ containers[i].Running
  /\ containers[i].Image = req["k1"].cImg
  /\ containers[i].ImageID = req["k1"].cId
  /\ UpdateArrives("u1", containers[i].Id, <<>>)

\* the next detection for the container of that name
ThenCheck(i) ==
  /\ alive
  /\ req["u1"].pc = "done" /\ req["k2"].pc = "idle"
  /\ i \in 1..Len(containers)
  /\ StripSlash(containers[i].Name) = req["u1"].containerName
  /\ CheckArrives("k2", i)

RecheckInit ==
  /\ \E mode \in {"host", "cgroup"}, aVer \in {1, 2}, latest \in LatestDigests :
       ServerInit(mode, aVer, latest)
  /\ logsReq = IdleLogs
  /\ call = NoCall

RecheckNext ==
  \/ \E i \in 1..MaxListed : FirstCheck(i) \/ ThenUpdate(i) \/ ThenCheck(i)
  \/ \E r \in Slots :
       \/ InspectAnswer(r)
       \/ OwnCgroup(r)
       \/ PullAnswer(r)
       \/ StopAnswer(r)
       \/ RemoveAnswer(r)
       \/ CreateAnswer(r)
       \/ StartAnswer(r)
       \/ InspectNewAnswer(r)
       \/ TokenAnswer(r)
       \/ ManifestAnswer(r)
       \/ ImagesAnswer(r)
  \/ \E d \in TickSteps : Tick(d)

RecheckSpec == RecheckInit /\ [][RecheckNext]_vars


(***************************************************************************)
(* The periodic check: the server starts with the settings of its file,    *)
(* clients put settings, the interval fires.                               *)
(***************************************************************************)
\* PUT /api/settings requests in a run
MaxPuts == 2
\* runs of the periodic check in a run
MaxRuns == 1

\* checkInterval in settings.json and in a request body
IntervalValues ==
  { JsNumber(0), JsNumber(1), JsNumber(5), JsNumber(-1),
    JsString(<<"5">>), JsString(<<"o", "f", "f">>), JsNull, JsTrue, JsUndefined }

\* the callback of app.listen (lines 1271-1278)
Listen ==
  /\ periodic.pc = "loaded"
  /\ periodic' = [setupPeriodicCheck(periodic) EXCEPT !.pc = "listening"]
  /\ UNCHANGED << serverVars, fnVars, pullReq, cleared >>

\* PUT /api/settings (lines 1112-1128)
PutSettings(checkInterval) ==
  /\ periodic.pc = "listening"
  /\ periodic.puts < MaxPuts
  /\ periodic' =
       setupPeriodicCheck(
         [periodic EXCEPT
            !.checkInterval = IF checkInterval.t = "number" /\ checkInterval.n >= 0
                                THEN checkInterval ELSE @,
            !.body = checkInterval,
            !.puts = @ + 1])
  /\ UNCHANGED << serverVars, fnVars, pullReq, cleared >>

\* an interval that runs fires: performPeriodicCheck is called
TimerFires(t) ==
  /\ t \in periodic.timers
  /\ periodic.runs < MaxRuns
  /\ periodic' = [periodic EXCEPT !.runs = @ + 1]
  /\ UNCHANGED << serverVars, fnVars, pullReq, cleared >>

TimerInit ==
  /\ \E interval \in IntervalValues \ {JsUndefined} :
       ServerLoad("host", Fleet(2), LocalImages(2), 2, interval)
  /\ logsReq = IdleLogs
  /\ call = NoCall

TimerNext ==
  \/ Listen
  \/ \E v \in IntervalValues : PutSettings(v)
  \/ \E t \in 1..(MaxPuts + 1) : TimerFires(t)

TimerSpec == TimerInit /\ [][TimerNext]_vars


(***************************************************************************)
(* The token check in front of every /api route.  A header is absent, <<>>,*)
(* or present with a value, <<value>>.                                     *)
(***************************************************************************)
Absent == <<>>
Header(s) == <<s>>

\* the truth value of a header: undefined and the empty string are false
Truthy(h) == h # Absent /\ h[1] # <<>>

\* s.includes(sub), of strings
IncludesString(s, sub) ==
  \E i \in 0..(Len(s) - Len(sub)) : SubSeq(s, i + 1, i + Len(sub)) = sub

Bearer == <<"B", "e", "a", "r", "e", "r", " ">>

\* what the middleware does with a request: it calls next() or it answers
PassOn == [next |-> TRUE, status |-> 0, error |-> "none"]
Reject(error) == [next |-> FALSE, status |-> 401, error |-> error]

\* authMiddleware (lines 385-413)
authMiddleware(API_TOKEN, authHeader, origin, referer, host) ==
  IF API_TOKEN = <<>> THEN PassOn
  ELSE IF Truthy(authHeader) /\ StartsWith(authHeader[1], Bearer)
    THEN IF SubstringFrom(authHeader[1], 7) = API_TOKEN THEN PassOn
         ELSE Reject("Unauthorized: Invalid token")
  ELSE IF \/ ~Truthy(origin)
          \/ Truthy(referer) /\ IncludesString(referer[1], host[1])
    THEN PassOn
  ELSE Reject("Unauthorized: Missing token")

\* API_TOKEN of the environment (line 15): not set, or a token
ApiTokens == { <<>>, <<"t">>, <<"t", "2">> }

\* the Authorization header of a request
AuthHeaders ==
  { Absent, Header(<<>>), Header(Bearer), Header(Bearer \o <<"t">>),
    Header(Bearer \o <<"t", "2">>), Header(Bearer \o <<"x">>),
    Header(<<"B", "a", "s", "i", "c", " ", "t">>),
    Header(<<"b", "e", "a", "r", "e", "r", " ", "t">>), Header(<<"t">>) }

\* the Origin and Referer headers of a request, and its Host
Origins == { Absent, Header(<<"/", "/", "h">>), Header(<<"/", "/", "e">>) }
Referers ==
  { Absent, Header(<<"/", "/", "h", "/">>), Header(<<"/", "/", "e", "/">>),
    Header(<<"/", "/", "e", "/", "h">>) }
Hosts == { Header(<<"h">>), Header(<<"e">>) }

AuthInit ==
  /\ ServerInit("host", 2, 2)
  /\ logsReq = IdleLogs
  /\ \E args \in ApiTokens \X AuthHeaders \X Origins \X Referers \X Hosts :
       call = [NoCall EXCEPT !.fn = "authMiddleware", !.args = args,
                             !.pc = "called"]

AuthReturn ==
  /\ call.pc = "called" /\ call.fn = "authMiddleware"
  /\ Return(authMiddleware(call.args[1], call.args[2], call.args[3],
                           call.args[4], call.args[5]))

AuthNext == AuthReturn

AuthSpec == AuthInit /\ [][AuthNext]_vars

(***************************************************************************)
(* Properties.                                                             *)
(***************************************************************************)
Destructive == {"stop", "remove", "create", "start"}
CheckPcs == {"c_token", "c_manifest", "c_images"}

\* the answer of a finished handler
Answered(r, code) ==
  req[r].pc = "done" /\ req[r].resp # <<>> /\ req[r].resp[1].code = code

\* the calls the handler issued while working on container cid
CallsFor(r, cid) ==
  {i \in 1..Len(req[r].calls) : req[r].calls[i].cid = cid}

\* C1: a single update whose target is the server's own container issues
\* no stop, remove, create or start, and its successful response carries
\* selfUpdate = true.
C1_SelfUpdateOnlyPulls ==
  \A r \in Slots :
    (req[r].kind = "single" /\ req[r].info # <<>> /\ req[r].info[1].Id = selfId)
    => /\ \A i \in 1..Len(req[r].calls) : req[r].calls[i].op \notin Destructive
       /\ Answered(r, 200) =>
            /\ "selfUpdate" \in DOMAIN req[r].resp[1]
            /\ req[r].resp[1].selfUpdate

\* C2: update-all never issues a stop or a remove against the server's own
\* container.
C2_BatchNeverStopsSelf ==
  \A r \in Slots :
    req[r].kind = "batch" =>
      \A i \in 1..Len(req[r].calls) :
        req[r].calls[i].op \in {"stop", "remove"}
        => req[r].calls[i].target # selfId

Recreating(r) ==
  /\ req[r].kind \in {"single", "batch"}
  /\ req[r].pc \in {"pull", "stop", "remove", "create", "start", "inspect_new"}

\* C4: when a recreation attempt that has computed its target image ends,
\* in success or in failure, the cache holds no entry for the original
\* image name and none for the target image name.
C4_CacheInvalidatedOnEveryOutcome ==
  [][ \A r \in Slots :
        (Recreating(r) /\ ~Recreating(r)')
        => /\ req[r].originalImageName \notin DOMAIN updateCache'
           /\ req[r].targetImageName \notin DOMAIN updateCache' ]_vars

\* C5: when the pull of an attempt has failed, that attempt has issued and
\* will issue no stop, remove, create or start for its container.
C5_PullFailureLeavesContainer ==
  \A r \in Slots :
    \A e \in req[r].errors :
      e.op = "pull" =>
        \A i \in CallsFor(r, e.cid) : req[r].calls[i].op \notin Destructive

C5_Witness ==
  \E r \in Slots :
    /\ req[r].kind = "batch"
    /\ req[r].pc = "done"
    /\ \E e \in req[r].errors :
         /\ e.op = "pull"
         /\ \E i \in CallsFor(r, e.cid) : req[r].calls[i].op = "pull"


\* this step is a call of checkImageUpdate made by handler r
CheckBegan(r) ==
  /\ checks' = checks + 1
  /\ req'[r].cSeq = checks'

\* an earlier call has stored a result for this name and local image ID,
\* the entry is still there and is younger than the TTL
StoredFresh(imageName, localImageId) ==
  /\ imageName \in DOMAIN updateCache
  /\ updateCache[imageName].localImageId = localImageId
  /\ now - updateCache[imageName].checkedAt < CACHE_TTL

\* C6: a call of checkImageUpdate for a name and a local image ID for which
\* an earlier call stored a result that is still in the cache and younger
\* than the TTL returns that very result and issues no registry or daemon
\* request.
C6_CacheIdempotence ==
  [][ \A r \in Slots :
        (CheckBegan(r) /\ StoredFresh(req'[r].cImg, req'[r].cId))
        => /\ req'[r].cResult = << updateCache[req'[r].cImg] >>
           /\ req'[r].cNet = 0
           /\ req'[r].pc \notin CheckPcs
           /\ updateCache' = updateCache ]_vars

C6_Witness ==
  \E r \in Slots :
    /\ req[r].kind = "check"
    /\ req[r].pc = "done"
    /\ req[r].cHit
    /\ req[r].cNet = 0
    /\ req[r].cImg \in DOMAIN updateCache
    /\ req[r].cResult = << updateCache[req[r].cImg] >>

\* C7: checkImageUpdate returns a cached entry only when the entry is
\* younger than the TTL and its localImageId equals the argument; a call
\* that finds the entry expired or with another localImageId starts a
\* fresh registry check, and the result of a fresh check overwrites the
\* entry.
C7_CacheHitOnlyWhenFresh ==
  [][ \A r \in Slots :
        /\ (CheckBegan(r) /\ req'[r].cHit)
           => /\ req'[r].cImg \in DOMAIN updateCache
              /\ now - updateCache[req'[r].cImg].checkedAt < CACHE_TTL
              /\ updateCache[req'[r].cImg].localImageId = req'[r].cId
        /\ ( /\ CheckBegan(r)
             /\ req'[r].cImg # <<>>
             /\ ~StartsWith(req'[r].cImg, Sha256Prefix)
             /\ ~StoredFresh(req'[r].cImg, req'[r].cId) )
           => /\ ~req'[r].cHit
              /\ req'[r].pc \in CheckPcs
              /\ req'[r].cNet = 1
        /\ (req[r].pc \in CheckPcs /\ req'[r].pc \notin CheckPcs)
           => /\ req[r].cImg \in DOMAIN updateCache'
              /\ req'[r].cResult = << updateCache'[req[r].cImg] >> ]_vars

\* a fresh check is under way although the cache holds an entry of the same
\* name that is younger than the TTL: its localImageId is another one
C7_Witness ==
  \E r \in Slots :
    /\ req[r].pc \in CheckPcs
    /\ req[r].cImg \in DOMAIN updateCache
    /\ now - updateCache[req[r].cImg].checkedAt < CACHE_TTL
    /\ updateCache[req[r].cImg].localImageId # req[r].cId

\* C8: checkImageUpdate never throws: whichever of its requests fails, it
\* returns a result, and when the fetch of the tag's digest fails the
\* result has hasUpdate = false and an error that is not null.
C8_CheckNeverThrows ==
  [][ \A r \in Slots :
        /\ (req[r].pc \in CheckPcs /\ req'[r].pc \notin CheckPcs)
           => /\ Len(req'[r].cResult) = 1
              /\ req'[r].cResult[1].hasUpdate \in BOOLEAN
              /\ "error" \in DOMAIN req'[r].cResult[1]
        /\ ( /\ req[r].pc \in {"c_token", "c_manifest"}
             /\ req[r].cStage = "tag"
             /\ req'[r].pc \notin CheckPcs )
           => /\ ~req'[r].cResult[1].hasUpdate
              /\ req'[r].cResult[1].error # Null ]_vars

C8_Witness ==
  \E r \in Slots :
    /\ req[r].cResult # <<>>
    /\ ~req[r].cResult[1].hasUpdate
    /\ req[r].cResult[1].error
         \in {<<"token request failed">>, <<"Request timeout">>}

\* the create options carry every setting of the inspected container
ConfigMatches(config, info, targetImageName) ==
  /\ DOMAIN config \subseteq
       ConfigFields \cup {"Image", "name", "HostConfig", "NetworkingConfig"}
  /\ config.Image = targetImageName
  /\ config.name = StripSlash(info.Name)
  /\ \A f \in ConfigFields :
       IF info.Config[f] = Null THEN f \notin DOMAIN config
       ELSE f \in DOMAIN config /\ config[f] = info.Config[f]
  /\ IF info.HostConfig = Null THEN "HostConfig" \notin DOMAIN config
     ELSE "HostConfig" \in DOMAIN config /\ config.HostConfig = info.HostConfig
  /\ config.NetworkingConfig = <<"EndpointsConfig">> \o info.Networks

\* C9: the options passed to create equal the snapshot inspected at the
\* start of the attempt in every recreation-relevant field, except Image,
\* which is the target image; only the fields that are null in the
\* snapshot are left out.
C9_CreateKeepsSnapshot ==
  \A r \in Slots :
    req[r].pc = "create" =>
      ConfigMatches(req[r].config[1], req[r].info[1], req[r].targetImageName)

C9_Witness ==
  \E r \in Slots :
    /\ req[r].pc = "create"
    /\ req[r].info[1].Config.Cmd = Null
    /\ req[r].info[1].Config.User = <<"">>
    /\ "Cmd" \notin DOMAIN req[r].config[1]
    /\ req[r].config[1].User = <<"">>
    /\ req[r].config[1].Image # req[r].info[1].Config.Image

\* the outcomes update-all has recorded for container cid
OutcomesFor(r, cid) ==
  {i \in 1..Len(req[r].results) : req[r].results[i].containerId = cid}

\* C10: update-all issues pull, stop, remove or create only for listed
\* containers with a tagged image for which checkImageUpdate returned
\* hasUpdate = true and that are not the server's own container; every
\* other listed container that could be inspected gets a 'skipped' outcome
\* and no such call.
C10_BatchTouchesOnlyEligible ==
  \A r \in Slots :
    req[r].kind = "batch" =>
      /\ \A i \in 1..Len(req[r].calls) :
           req[r].calls[i].op \in {"pull", "stop", "remove", "create"}
           => /\ req[r].calls[i].cid # selfId
              /\ \E j \in 1..Len(req[r].list) :
                   /\ req[r].list[j].Id = req[r].calls[i].cid
                   /\ ~StartsWith(req[r].list[j].Image, Sha256Prefix)
              /\ \E k \in 1..Len(req[r].checked) :
                   /\ req[r].checked[k].cid = req[r].calls[i].cid
                   /\ req[r].checked[k].hasUpdate
      /\ Answered(r, 200) =>
           \A j \in 1..Len(req[r].list) :
             ( /\ \A i \in CallsFor(r, req[r].list[j].Id) :
                    req[r].calls[i].op = "inspect"
               /\ \A e \in req[r].errors : e.cid # req[r].list[j].Id )
             => \E o \in OutcomesFor(r, req[r].list[j].Id) :
                  req[r].results[o].status = "skipped"

\* the listing of the update-all run came back
Listed(r) ==
  /\ req[r].kind = "batch"
  /\ req[r].pc # "list"
  /\ \A e \in req[r].errors : e.op # "list"
  /\ req[r].calls # <<>>
  /\ ~(req[r].pc = "done" /\ Len(req[r].calls) = 1 /\ req[r].list = <<>>)

\* the response of a run whose listing succeeded: success = true, and one
\* outcome per listed container in listing order
OneOutcomeEach(r) ==
  (req[r].pc = "done" /\ req[r].resp # <<>>) =>
    /\ req[r].resp[1].code = 200
    /\ req[r].resp[1].success
    /\ req[r].resp[1].results = req[r].results
    /\ Len(req[r].results) = Len(req[r].list)
    /\ \A i \in 1..Len(req[r].results) :
         req[r].results[i].containerId = req[r].list[i].Id

\* the daemon calls of the run that failed while it worked on container cid
FailuresOn(r, cid, ops) == {e \in req[r].errors : e.cid = cid /\ e.op \in ops}

\* C11 (as stated): when the listing of update-all succeeds, the response
\* has success = true and exactly one outcome per listed container in
\* listing order, and a container has the outcome 'failed' exactly when one
\* of its daemon calls (inspect, pull, stop, remove, create, start) failed.
C11_BatchIsolatesFailures ==
  \A r \in Slots :
    Listed(r) =>
      /\ OneOutcomeEach(r)
      /\ \A i \in 1..Len(req[r].results) :
           (req[r].results[i].status = "failed")
           <=> FailuresOn(r, req[r].results[i].containerId,
                          {"inspect", "pull", "stop", "remove", "create",
                           "start"}) # {}

\* C11 (amended): when the listing of update-all succeeds, the response has
\* success = true and exactly one outcome per listed container in listing
\* order; a container has the outcome 'failed' exactly when its inspect,
\* pull, remove, create or start failed, and a failed stop is ignored.
C11_BatchIsolatesFailuresButStop ==
  \A r \in Slots :
    Listed(r) =>
      /\ OneOutcomeEach(r)
      /\ \A i \in 1..Len(req[r].results) :
           (req[r].results[i].status = "failed")
           <=> FailuresOn(r, req[r].results[i].containerId,
                          {"inspect", "pull", "remove", "create", "start"})
               # {}

\* a run answered after one container failed and a later one was recreated
C11_Witness ==
  \E r \in Slots :
    /\ Listed(r) /\ Answered(r, 200)
    /\ \E i, j \in 1..Len(req[r].results) :
         /\ i < j
         /\ req[r].results[i].status = "failed"
         /\ req[r].results[j].status = "success"

\* the listed containers that rq has begun to stop and has no outcome for
BetweenStopAndStart(rq) ==
  { rq.calls[i].cid : i \in {j \in 1..Len(rq.calls) : rq.calls[j].op = "stop"} }
  \ { rq.results[i].containerId : i \in 1..Len(rq.results) }

\* a step of an update-all run from rq to rq2, with the log going from logs
\* to logs2: a new daemon call is for the container at the loop position
\* and is made when every earlier container has its outcome; a new log
\* entry is for the container at the loop position, which had none, and
\* its pull is issued with it
SequentialStep(rq, rq2, logs, logs2) ==
  /\ rq2.idx >= rq.idx
  /\ Len(rq2.calls) > Len(rq.calls) =>
       /\ rq2.idx \in 1..Len(rq2.list)
       /\ rq2.calls[Len(rq2.calls)].cid = rq2.list[rq2.idx].Id
       /\ Len(rq2.results) = rq2.idx - 1
  /\ Len(logs2) > Len(logs) =>
       /\ Tail(logs2) = logs
       /\ rq2.idx \in 1..Len(rq2.list)
       /\ Head(logs2).containerName = ListedName(rq2.list[rq2.idx])
       /\ rq2.calls[Len(rq2.calls)].op = "pull"
       /\ \A i \in 1..Len(rq.calls) :
            rq.calls[i].op = "pull" => rq.calls[i].cid # rq2.list[rq2.idx].Id
  /\ Cardinality(BetweenStopAndStart(rq2)) <= 1

\* C12: within one update-all run the recreations are strictly sequential:
\* the calls for a container begin only after the outcome of the container
\* before it is recorded, at most one container is between its stop and
\* its start, and log entries are created in listing order.
C12_BatchSequential ==
  [][ \A r \in Slots :
        ( /\ req[r].kind = "batch"
          /\ req[r].pc \notin {"idle", "done"}
          /\ req'[r] # req[r] )
        => SequentialStep(req[r], req'[r], updateLogs, updateLogs') ]_vars

\* a run that recreated two containers and answered
C12_Witness ==
  \E r \in Slots :
    /\ Listed(r) /\ Answered(r, 200)
    /\ \E i, j \in 1..Len(req[r].results) :
         /\ i < j
         /\ req[r].results[i].status = "success"
         /\ req[r].results[j].status = "success"

\* the image name the listing shows for container cid of run r
ListedImage(r, cid) ==
  req[r].list[CHOOSE j \in 1..Len(req[r].list) : req[r].list[j].Id = cid].Image

RecreatedBy(r) ==
  /\ req[r].kind = "single"
  /\ Answered(r, 200)
  /\ "imageChanged" \in DOMAIN req[r].resp[1]
  /\ \E i \in 1..Len(containers) : containers[i].Id = req[r].newId

\* C14: a single-container recreation answers success = true, with
\* imageChanged true exactly when the image ID of the old container and
\* that of the new one differ (false for a recreation on the same image)
\* and tagChanged true exactly when the current tag and the new tag differ.
C14_ChangeFlags ==
  \A r \in Slots :
    RecreatedBy(r) =>
      LET new == CHOOSE i \in 1..Len(containers) : containers[i].Id = req[r].newId
          currentTag == parseImageName(req[r].info[1].Config.Image).tag
          newTag == IF req[r].targetTag # <<>> THEN req[r].targetTag
                    ELSE currentTag
      IN /\ req[r].resp[1].success
         /\ req[r].resp[1].imageChanged
            <=> (containers[new].ImageID # req[r].info[1].Image)
         /\ req[r].resp[1].tagChanged <=> (currentTag # newTag)

\* a recreation on the same image has answered success with imageChanged =
\* false
C14_Witness ==
  \E r \in Slots :
    /\ RecreatedBy(r)
    /\ req[r].resp[1].success
    /\ ~req[r].resp[1].imageChanged
    /\ \E i \in 1..Len(containers) :
         /\ containers[i].Id = req[r].newId
         /\ containers[i].ImageID = req[r].info[1].Image

\* the helper fn has returned from the call
Returned(fn) == call.fn = fn /\ call.pc = "returned"

\* C15: for every target container ID and own container ID the guard
\* declares a match if and only if one of the two is a prefix of the other.
C15_GuardIffPrefix ==
  (Returned("isSelfUpdate") /\ call.args[1] # <<>>) =>
    ( call.ret[1] <=> ( \/ StartsWith(call.args[1], call.args[2])
                        \/ StartsWith(call.args[2], call.args[1]) ) )

\* C18: parseImageName returns, for every string, a repository that is not
\* empty.
C18_RepositoryNonEmpty ==
  Returned("parseImageName") => call.ret[1].repository # <<>>

\* the reading of an image name n that C19 lists, the tag colon being the
\* last colon when it is at 1-based position from or later
ListedParse(n, from) ==
  LET colon == LastIndexOf(n, ":") + 1
      tagged == colon >= from /\ \A j \in (colon + 1)..Len(n) : n[j] # "/"
      rest == IF tagged THEN SubSeq(n, 1, colon - 1) ELSE n
      slash == IndexOf(rest, "/") + 1
      segment == SubSeq(rest, 1, slash - 1)
      explicit == slash > 0 /\ \E j \in 1..Len(segment) : segment[j] \in {".", ":"}
      registry == IF explicit THEN segment ELSE DockerHub
      repository == IF explicit THEN SubSeq(rest, slash + 1, Len(rest)) ELSE rest
  IN [ registry |-> registry,
       repository |-> IF registry = DockerHub
                         /\ \A j \in 1..Len(repository) : repository[j] # "/"
                        THEN LibraryPrefix \o repository ELSE repository,
       tag |-> IF tagged THEN SubSeq(n, colon + 1, Len(n)) ELSE Latest ]

\* the three image names of the documentation parse as it lists them
ListedExamples ==
  /\ call.args[1] = <<"n","g","i","n","x">>
       => call.ret[1] = [ registry |-> DockerHub,
                          repository |-> <<"l","i","b","r","a","r","y","/","n","g","i","n","x">>,
                          tag |-> Latest ]
  /\ call.args[1] = <<"m","y","r","e","g","i","s","t","r","y",".","i","o",":","5","0","0","0","/","a","p","p",":","v","1",".","2",".","3">>
       => call.ret[1] = [ registry |-> <<"m","y","r","e","g","i","s","t","r","y",".","i","o",":","5","0","0","0">>,
                          repository |-> <<"a","p","p">>,
                          tag |-> <<"v","1",".","2",".","3">> ]
  /\ call.args[1] = <<"g","h","c","r",".","i","o","/","o","r","g","/","a","p","p">>
       => call.ret[1] = [ registry |-> <<"g","h","c","r",".","i","o">>,
                          repository |-> <<"o","r","g","/","a","p","p">>,
                          tag |-> Latest ]

\* C19 (as stated): the tag is the text after the last colon when no slash
\* follows that colon, else 'latest'; the registry is the first path
\* segment (the text before the first slash) when it contains a dot or a
\* colon, and is then stripped from the repository, else Docker Hub; a
\* Docker Hub repository without a slash gets the prefix 'library/'.
C19_ParseAsListed ==
  Returned("parseImageName") =>
    call.ret[1] = ListedParse(call.args[1], 1) /\ ListedExamples

\* C19 (amended): as stated, but a colon that is the first character of the
\* name is no tag colon: such a name has the tag 'latest' and keeps the
\* colon in its repository.
C19_ParseAsListedButLeadingColon ==
  Returned("parseImageName") =>
    call.ret[1] = ListedParse(call.args[1], 2) /\ ListedExamples

\* the name with a registry that has a port, and a tag, has been parsed
C19_Witness ==
  /\ Returned("parseImageName")
  /\ call.args[1] = <<"m","y","r","e","g","i","s","t","r","y",".","i","o",":","5","0","0","0","/","a","p","p",":","v","1",".","2",".","3">>
  /\ call.ret[1].registry = <<"m","y","r","e","g","i","s","t","r","y",".","i","o",":","5","0","0","0">>

\* C20: isPinnedVersionTag is true exactly for a tag that is not a dynamic
\* tag (in any case), contains a digit, and contains a dot or a dash or
\* starts with an optional 'v' and then a digit.
C20_PinnedAsListed ==
  Returned("isPinnedVersionTag") =>
    LET tag == call.args[1]
    IN /\ call.ret[1] <=>
            /\ \A d \in dynamicTags : ToLowerCase(tag) # d
            /\ \E i \in 1..Len(tag) : tag[i] \in Digits
            /\ \/ \E i \in 1..Len(tag) : tag[i] \in {".", "-"}
               \/ Len(tag) >= 1 /\ tag[1] \in Digits
               \/ Len(tag) >= 2 /\ tag[1] = "v" /\ tag[2] \in Digits
       /\ tag \in {Latest, <<"n","i","g","h","t","l","y">>} => ~call.ret[1]
       /\ tag \in {<<"1",".","2","2",".","4">>, <<"v","2",".","0",".","0","-","r","c","1">>} => call.ret[1]

\* a version with a leading v and a pre-release suffix was classified
C20_Witness ==
  /\ Returned("isPinnedVersionTag")
  /\ call.args[1] = <<"v","2",".","0",".","0","-","r","c","1">>
  /\ call.ret[1]

RECURSIVE LinesOf(_, _)
\* the lines of the frames fs that lie whole within the first room bytes of
\* their stream, up to the first frame that does not
LinesOf(fs, room) ==
  IF fs = <<>> \/ HeaderLen + Len(Head(fs).payload) > room THEN <<>>
  ELSE (IF Head(fs).text # <<>> THEN <<Head(fs)>> ELSE <<>>)
       \o LinesOf(Tail(fs), room - HeaderLen - Len(Head(fs).payload))

\* C16: the decoder emits, in buffer order, exactly one {stream, message}
\* per complete frame before the first incomplete one whose trimmed payload
\* is not empty, with stream 'stdout' for type byte 1 and 'stderr' for type
\* byte 2; a buffer cut inside a header or a payload yields the lines of
\* the complete frames before the cut.
C16_DecodesCompleteFrames ==
  logsReq.pc \in {"respond", "done"} =>
    LET lines == LinesOf(logsReq.sent, logsReq.cut)
    IN /\ Len(logsReq.logLines) = Len(lines)
       /\ \A i \in 1..Len(lines) :
            /\ logsReq.logLines[i].message = lines[i].text
            /\ lines[i].type = 1 => logsReq.logLines[i].stream = "stdout"
            /\ lines[i].type = 2 => logsReq.logLines[i].stream = "stderr"
       /\ logsReq.pc = "done" => logsReq.resp[1].logs = logsReq.logLines

\* a stream of a stdout line and a stderr line, cut inside the frame after
\* them, was decoded
C16_Witness ==
  /\ logsReq.pc = "done"
  /\ Len(logsReq.logLines) = 2
  /\ logsReq.logLines[1].stream = "stdout"
  /\ logsReq.logLines[2].stream = "stderr"
  /\ logsReq.offset < Len(logsReq.buffer)
  /\ logsReq.cut < Len(Encode(logsReq.sent)) + HeaderLen + 1

\* C17: the decoder reads no byte at an index at or past the length of the
\* buffer, whatever size a header declares.
C17_ReadsWithinBuffer ==
  \A i \in logsReq.reads : 0 <= i /\ i < Len(logsReq.buffer)

\* the loop has ended at a header that declares 2^32 - 1 bytes
C17_Witness ==
  /\ logsReq.pc = "done"
  /\ logsReq.offset + HeaderLen <= Len(logsReq.buffer)
  /\ ReadUInt32BE(logsReq.buffer, logsReq.offset + 4) = [hi |-> 65535, lo |-> 65535]
  /\ (logsReq.offset + HeaderLen - 1) \in logsReq.reads

\* the detection call in slot r is the first one made after the cache
\* clear, and it is for an image with a tag
FirstAfterClear(r) ==
  /\ cleared.done
  /\ req[r].kind = "check"
  /\ req[r].cSeq = cleared.checks + 1
  /\ ~ShortCircuit(req[r].cImg)

\* C21: after a cache clear has completed, the next checkImageUpdate call
\* that starts for a tagged image is not answered from the cache, also when
\* detection calls were running at the moment of the clear.
C21_ClearForcesFetch ==
  \A r \in Slots : FirstAfterClear(r) => ~req[r].cHit

\* C21 as the code has it: the next call is answered from the cache only
\* when a detection call for the same image was running at the moment of
\* the clear (and has stored its result since).
C21_ClearForcesFetchUnlessPending ==
  \A r \in Slots :
    (FirstAfterClear(r) /\ req[r].cImg \notin cleared.pending) => ~req[r].cHit

\* an image whose result the clear dropped has been checked again, within
\* the TTL, and its digest was fetched anew
C21_Witness ==
  \E r \in Slots :
    /\ FirstAfterClear(r)
    /\ req[r].cImg \in cleared.dropped
    /\ cleared.pending = {}
    /\ ticks = 0
    /\ req[r].pc = "done"
    /\ ~req[r].cHit
    /\ req[r].cNet > 0
    /\ req[r].cImg \in DOMAIN updateCache

\* C22: the pull-only handler issues no stop, remove, create or start; a
\* pull that succeeded deletes exactly the cache entry keyed by the pulled
\* image name, and a pull that failed leaves the cache as it was.
C22_PullOnlyFrame ==
  [][ pullReq' # pullReq =>
        /\ \A i \in 1..Len(pullReq'.calls) : pullReq'.calls[i].op = "pull"
        /\ containers' = containers
        /\ created' = created
        /\ IF pullReq'.pc = "done" /\ pullReq'.resp[1].code = 200
             THEN /\ DOMAIN updateCache' = DOMAIN updateCache \ {pullReq.imageName}
                  /\ \A k \in DOMAIN updateCache' : updateCache'[k] = updateCache[k]
             ELSE updateCache' = updateCache ]_vars

\* a pull has succeeded for an image whose result was in the cache beside
\* the result of another image
C22_Witness ==
  /\ pullReq.pc = "done"
  /\ pullReq.resp[1].code = 200
  /\ pullReq.imageName \in pullReq.keys
  /\ Cardinality(pullReq.keys) = 2
  /\ DOMAIN updateCache = pullReq.keys \ {pullReq.imageName}

\* getRemoteDigest is running: one of its two requests is out
FetchPcs == {"c_token", "c_token_stalled", "c_manifest", "c_manifest_stalled"}

\* C23: every getRemoteDigest call eventually resolves or rejects,
\* whichever of its requests stalls.
C23_FetchCompletes ==
  (req["k1"].pc \in FetchPcs) ~> (req["k1"].pc \notin FetchPcs)

RecreationOrder == <<"pull", "stop", "remove", "create", "start", "inspect">>

\* the daemon calls the handler issued for container cid after the inspect
\* it began with, in the order of their issue
RecreationOps(r, cid) ==
  LET on == SelectSeq(req[r].calls, LAMBDA c : c.cid = cid)
  IN [i \in 1..(Len(on) - 1) |-> on[i + 1].op]

\* C24: the daemon calls of a recreation are issued in the order pull, stop,
\* remove, create, start, inspect; stop only after the pull succeeded,
\* remove after stop returned (also when stop failed), create only after
\* remove succeeded and start only after create succeeded.
C24_RecreationOrder ==
  \A r \in Slots :
    \A cid \in {req[r].calls[i].cid : i \in 1..Len(req[r].calls)} :
      LET ops == RecreationOps(r, cid)
      IN /\ Len(ops) <= Len(RecreationOrder)
         /\ ops = SubSeq(RecreationOrder, 1, Len(ops))
         /\ Len(ops) >= 2 => FailuresOn(r, cid, {"pull"}) = {}
         /\ (Len(ops) >= 3 /\ cid = req[r].containerId) => req[r].pc # "stop"
         /\ FailuresOn(r, cid, {"stop"}) # {} => Len(ops) >= 3
         /\ Len(ops) >= 4 => FailuresOn(r, cid, {"remove"}) = {}
         /\ Len(ops) >= 5 => FailuresOn(r, cid, {"create"}) = {}
         /\ Len(ops) >= 6 => FailuresOn(r, cid, {"start"}) = {}

\* a recreation has gone through all six calls although its stop failed
C24_Witness ==
  \E r \in Slots :
    /\ req[r].pc = "done"
    /\ req[r].kind \in {"single", "batch"}
    /\ \E cid \in {req[r].calls[i].cid : i \in 1..Len(req[r].calls)} :
         /\ RecreationOps(r, cid) = RecreationOrder
         /\ FailuresOn(r, cid, {"stop"}) # {}

\* the entries of the log that the handler in slot r created last
OwnEntries(r) == {i \in 1..Len(updateLogs) : updateLogs[i].id = req[r].logId}

\* C25: a single update that fails after it created its log entry leaves
\* that entry 'failed' with the error in its message, and issues no daemon
\* call after the one that failed, also while other updates are running.
C25_FailureMarksOwnEntry ==
  \A r \in Slots :
    (req[r].kind = "single" /\ Answered(r, 500) /\ req[r].logId # <<>>) =>
      /\ \A i \in OwnEntries(r) :
           /\ updateLogs[i].status = "failed"
           /\ updateLogs[i].message =
                <<"Failed to update: ", req[r].resp[1].details>>
      /\ LET last == req[r].calls[Len(req[r].calls)]
         IN \E e \in req[r].errors : e.op = last.op /\ e.target = last.target

\* C26: a log entry is 'in-progress' only while the request that created
\* it is running; once that request has finished the entry is 'success' or
\* 'failed', however single and batch updates overlap.
C26_EntriesReachTerminal ==
  \A i \in 1..Len(updateLogs) :
    updateLogs[i].status = "in-progress" =>
      \E r \in Slots : req[r].pc \notin {"idle", "done"} /\ i \in OwnEntries(r)

\* C27: an entry that is 'success' or 'failed' keeps its status and its
\* message for as long as it is in the log.
C27_TerminalEntriesKeep ==
  [][ \A i \in 1..Len(updateLogs) :
        updateLogs[i].status \in {"success", "failed"} =>
          \A j \in 1..Len(updateLogs') :
            updateLogs'[j].id = updateLogs[i].id =>
              /\ updateLogs'[j].status = updateLogs[i].status
              /\ updateLogs'[j].message = updateLogs[i].message ]_vars

\* Number(id) of an id String(n)
NumberOf(id) == id[2]

\* C28: the ids of the log are pairwise distinct and strictly decreasing
\* from its head to its tail, however updates and log clears interleave.
C28_LogNewestFirst ==
  \A i, j \in 1..Len(updateLogs) :
    i < j => NumberOf(updateLogs[i].id) > NumberOf(updateLogs[j].id)

\* a single and a batch update that ran side by side have an entry each in
\* the log, the batch's above the single update's
C28_Witness ==
  /\ Len(updateLogs) >= 2
  /\ \E i, j \in 1..Len(updateLogs) :
       /\ i < j
       /\ i \in OwnEntries("b1")
       /\ j \in OwnEntries("u1")
       /\ req["u1"].pc \notin {"idle", "done"}
       /\ req["b1"].pc \notin {"idle", "done"}

\* C29: a result stored by a check that did not fail has hasUpdate true
\* exactly when the tag's remote digest and the local digest are both known
\* and differ, or the tag is pinned, the registry is Docker Hub, the latest
\* digest was fetched and differs from the tag's remote digest.
C29_HasUpdateFormula ==
  \A n \in DOMAIN updateCache :
    LET res == updateCache[n]
        ref == parseImageName(n)
    IN res.error = Null =>
         (res.hasUpdate <=>
            \/ /\ res.remoteDigest # 0
               /\ res.localDigest # 0
               /\ res.remoteDigest # res.localDigest
            \/ /\ isPinnedVersionTag(ref.tag)
               /\ ref.registry = DockerHub
               /\ res.latestDigest # 0
               /\ res.latestDigest # res.remoteDigest)

\* the cache holds a pinned Docker Hub image whose own digest is the local
\* one and whose update was found through the latest digest, beside a pinned
\* image of another registry without an update
C29_Witness ==
  /\ ImgA1 \in DOMAIN updateCache
  /\ updateCache[ImgA1].error = Null
  /\ updateCache[ImgA1].hasUpdate
  /\ updateCache[ImgA1].remoteDigest = updateCache[ImgA1].localDigest
  /\ updateCache[ImgA1].latestDigest # 0
  /\ ImgElsewhere \in DOMAIN updateCache
  /\ updateCache[ImgElsewhere].error = Null
  /\ ~updateCache[ImgElsewhere].hasUpdate

\* the detection call in slot r waits for the latest digest
FetchingLatest(r) ==
  /\ req[r].kind = "check"
  /\ req[r].cStage = "latest"
  /\ req[r].pc \in {"c_token", "c_manifest", "c_manifest_stalled"}

\* the step is the failure of the request slot r waits for: an error of the
\* network, a registry without the manifest, or the timeout
FetchFails(r) ==
  /\ req'[r].pc = "done"
  /\ \/ faults' # faults
     \/ req[r].pc = "c_manifest" /\ Served(req[r].cFetch) = 0
     \/ req[r].pc = "c_manifest_stalled"

\* C30: when the fetch of the latest digest for a pinned Docker Hub tag
\* fails, the check stores and returns a result with error null,
\* latestDigest null and hasUpdate false that carries the remote and the
\* local digest of the tag.
C30_LatestFailureSwallowed ==
  [][ \A r \in Slots :
        (FetchingLatest(r) /\ FetchFails(r)) =>
          /\ req'[r].cResult # <<>>
          /\ LET res == req'[r].cResult[1]
             IN /\ res.error = Null
                /\ res.latestDigest = 0
                /\ res.hasUpdate = FALSE
                /\ res.remoteDigest = req[r].cRemote
                /\ res.remoteDigest # 0
                /\ res.localDigest = req[r].cLocal
                /\ req[r].cImg \in DOMAIN updateCache'
                /\ updateCache'[req[r].cImg] = res ]_vars

\* a check of the pinned Docker Hub image has ended with the digests of its
\* tag and without a latest digest, after the latest digest was asked for
C30_Witness ==
  \E r \in Slots :
    /\ req[r].kind = "check"
    /\ req[r].pc = "done"
    /\ req[r].cStage = "latest"
    /\ req[r].cImg = ImgA1
    /\ req[r].cResult # <<>>
    /\ req[r].cResult[1].error = Null
    /\ req[r].cResult[1].latestDigest = 0
    /\ req[r].cResult[1].remoteDigest = 1
    /\ req[r].cResult[1].localDigest = 1
    /\ ~req[r].cHit

\* the step is one of the detection call in slot r (it begins, or one of
\* its requests is answered), not a cache clear and not a pull request
CheckStep(r) ==
  /\ req'[r] # req[r]
  /\ req'[r].kind = "check"
  /\ cleared' = cleared
  /\ pullReq' = pullReq

\* C31: a call checkImageUpdate(imageName, ...) adds, overwrites and removes
\* no cache entry but the one keyed by imageName; a call for a name that is
\* empty or starts with 'sha256:' changes no entry and issues no request.
C31_CheckTouchesOwnKey ==
  [][ \A r \in Slots :
        CheckStep(r) =>
          /\ \A n \in DOMAIN updateCache \cup DOMAIN updateCache' :
               n # req'[r].cImg =>
                 /\ n \in DOMAIN updateCache
                 /\ n \in DOMAIN updateCache'
                 /\ updateCache'[n] = updateCache[n]
          /\ ShortCircuit(req'[r].cImg) =>
               /\ updateCache' = updateCache
               /\ req'[r].pc = "done"
               /\ req'[r].cNet = 0
               /\ req'[r].calls = <<>>
               /\ req'[r].cResult =
                    << [hasUpdate |-> FALSE, error |-> <<"No image tag">>] >> ]_vars

\* a call for a name without a tag has returned while the cache held the
\* result of another image
C31_Witness ==
  \E r \in Slots :
    /\ req[r].kind = "check"
    /\ req[r].pc = "done"
    /\ ShortCircuit(req[r].cImg)
    /\ updateCache # <<>>

\* C32: a result returned by a call that was not short-circuited, from the
\* cache or freshly computed, carries the localImageId the call was given.
C32_ResultForOwnImageId ==
  \A r \in Slots :
    (/\ req[r].kind = "check"
     /\ req[r].cResult # <<>>
     /\ ~ShortCircuit(req[r].cImg)) =>
      req[r].cResult[1].localImageId = req[r].cId

\* the call in slot r begins with a stored error result for its image name
\* and local image ID that is younger than the TTL
ErrorStored(r) ==
  /\ req'[r].cSeq # req[r].cSeq
  /\ req'[r].kind = "check"
  /\ req'[r].cImg \in DOMAIN updateCache
  /\ updateCache[req'[r].cImg].error # Null
  /\ updateCache[req'[r].cImg].localImageId = req'[r].cId
  /\ (now - updateCache[req'[r].cImg].checkedAt) < CACHE_TTL

\* C33: a call for an image whose stored result is an error, with the same
\* local image ID and within the TTL, returns the stored error result and
\* sends nothing to the registry.
C33_ErrorResultCached ==
  [][ \A r \in Slots :
        ErrorStored(r) =>
          /\ req'[r].pc = "done"
          /\ req'[r].cHit
          /\ req'[r].cNet = 0
          /\ req'[r].cResult = << updateCache[req'[r].cImg] >>
          /\ updateCache' = updateCache ]_vars

\* a call was answered with the error result an earlier call had stored
C33_Witness ==
  \E r \in Slots :
    /\ req[r].kind = "check"
    /\ req[r].pc = "done"
    /\ req[r].cHit
    /\ req[r].cNet = 0
    /\ req[r].cResult # <<>>
    /\ req[r].cResult[1].error # Null
    /\ req[r].cImg \in DOMAIN updateCache
    /\ updateCache[req[r].cImg] = req[r].cResult[1]

\* C32 under checks that run side by side: the same, for the checks one
\* listing dispatched, with cache clears and pulls between their steps
C32_Witness ==
  /\ req["k1"].pc = "done" /\ req["k2"].pc = "done"
  /\ req["k1"].cImg = req["k2"].cImg
  /\ req["k1"].cId # req["k2"].cId
  /\ req["k1"].cResult # <<>> /\ req["k2"].cResult # <<>>
  /\ req["k1"].cResult[1].localImageId = req["k1"].cId
  /\ req["k2"].cResult[1].localImageId = req["k2"].cId
  /\ cleared.done

\* C35: the checks one listing dispatched for containers of the same image
\* name and local image ID send at most one of them a request to the
\* registry.
C35_OneFetchPerImage ==
  (/\ req["k1"].kind = "check" /\ req["k2"].kind = "check"
   /\ req["k1"].cImg = req["k2"].cImg
   /\ req["k1"].cId = req["k2"].cId) =>
    ~(req["k1"].cNet > 0 /\ req["k2"].cNet > 0)

\* the request in slot r has finished and it worked on the container
\* called name: a single update of it, or a batch with an outcome for it
\* other than 'skipped'
WorkedOn(r, name) ==
  /\ req[r].pc = "done"
  /\ \/ req[r].kind = "single" /\ req[r].containerName = name
     \/ /\ req[r].kind = "batch"
        /\ \E i \in 1..Len(req[r].results) :
             /\ req[r].results[i].containerName = name
             /\ req[r].results[i].status \in {"success", "failed"}

\* the containers of the daemon with that name
Named(name) == {i \in 1..Len(containers) : StripSlash(containers[i].Name) = name}

\* C36: when two update requests for the same container have both
\* finished and no daemon call failed for a reason other than the other
\* request's removal or creation, exactly one container of that name exists
\* and it is running.
C36_OneContainerAfterRace ==
  \A r1, r2 \in Slots :
    (r1 # r2 /\ faults = 0 /\ WorkedOn(r1, NameWeb) /\ WorkedOn(r2, NameWeb)) =>
      /\ Cardinality(Named(NameWeb)) = 1
      /\ \A i \in Named(NameWeb) : containers[i].Running

\* two requests for the container have finished after their daemon calls
\* interleaved: the one that lost the race failed at a call of its own
C36_Witness ==
  \E r1, r2 \in Slots :
    /\ r1 # r2
    /\ faults = 0
    /\ WorkedOn(r1, NameWeb) /\ WorkedOn(r2, NameWeb)
    /\ Len(req[r1].calls) >= 3
    /\ req[r2].errors # {}
    /\ created >= 1

\* the handler in slot r gets past the memo of getOwnContainerId in this
\* step: it goes on to read the cgroup file and, maybe, to list containers
ReadsOwnAgain(r) ==
  /\ req[r].pc \notin {"own_cgroup", "own_list"}
  /\ req'[r].pc \in {"own_cgroup", "own_list"}

\* C34: once a call of getOwnContainerId has completed (an update has
\* created its log entry, which it does after the call), no later call
\* reads the cgroup file or lists the containers again.
C34_OwnIdMemoized ==
  [][ logIdCounter > 1 => \A r \in Slots : ~ReadsOwnAgain(r) ]_vars

\* the first detection flagged the container, and its update without a
\* target tag has recreated it and has been answered with success
UpdatedAfterFlag ==
  /\ req["k1"].kind = "check" /\ req["k1"].pc = "done"
  /\ req["k1"].cResult # <<>>
  /\ req["k1"].cResult[1].hasUpdate
  /\ req["u1"].kind = "single" /\ req["u1"].pc = "done"
  /\ req["u1"].targetTag = <<>>
  /\ req["u1"].originalImageName = req["k1"].cImg
  /\ Answered("u1", 200)
  /\ req["u1"].resp[1].success
  /\ ~req["u1"].isSelfUpdate

\* C37: after a single update without a target tag has succeeded for a
\* container that detection had flagged, the next detection for that
\* container reports no update, the registry being the same throughout.
C37_UpdateClearsFlag ==
  (/\ UpdatedAfterFlag
   /\ req["k2"].kind = "check" /\ req["k2"].pc = "done"
   /\ req["k2"].cResult # <<>>) =>
    ~req["k2"].cResult[1].hasUpdate

\* the iteration ended the loop at its header or size check, the offset as
\* it was
Stops == logsReq'.pc = "respond" /\ logsReq'.offset = logsReq.offset

\* the iteration moved the offset by at least the length of a header, and
\* not beyond the end of the buffer
Advances ==
  /\ logsReq'.offset >= logsReq.offset + HeaderLen
  /\ logsReq'.offset <= Len(logsReq.buffer)

\* C38: every iteration of the decode loop stops the loop or advances the
\* offset by at least 8 bytes, and the loop makes at most buffer.length / 8
\* iterations.
C38_DecodeTerminates ==
  [][ logsReq.pc = "loop" =>
        /\ Stops \/ Advances
        /\ logsReq'.iters * HeaderLen <= Len(logsReq.buffer) ]_vars

\* C38 with the iteration that stops counted: at most buffer.length / 8
\* iterations advance, and one more may end the loop at a cut header or a
\* cut payload.
C38_DecodeTerminatesCountingStop ==
  [][ logsReq.pc = "loop" =>
        /\ Stops \/ Advances
        /\ Advances => logsReq'.iters * HeaderLen <= logsReq'.offset
        /\ logsReq'.iters <= (Len(logsReq.buffer) \div HeaderLen) + 1 ]_vars

\* the loop has decoded two frames and ended in a third iteration, at what
\* was left of the stream
C38_Witness ==
  /\ logsReq.pc = "done"
  /\ logsReq.iters = 3
  /\ logsReq.offset >= 2 * HeaderLen
  /\ logsReq.offset < Len(logsReq.buffer)

\* C39: once the server listens, at most one interval runs, and one runs
\* exactly when settings.checkInterval is greater than 0; a PUT whose
\* checkInterval is negative or is no number leaves the stored one as it was.
C39_OneTimerIffPositive ==
  [][ /\ periodic'.pc = "listening" =>
           /\ Cardinality(periodic'.timers) <= 1
           /\ periodic'.timers # {} <=> GreaterThanZero(periodic'.checkInterval)
           /\ periodic'.timers \subseteq {periodic'.periodicCheckInterval}
      /\ (/\ periodic'.puts # periodic.puts
          /\ periodic'.body.t # "number" \/ periodic'.body.n < 0) =>
           periodic'.checkInterval = periodic.checkInterval ]_vars

\* two settings updates have replaced the interval that ran with another
C39_Witness ==
  /\ periodic.pc = "listening"
  /\ periodic.puts = 2
  /\ periodic.made >= 2
  /\ periodic.timers = {periodic.periodicCheckInterval}
  /\ periodic.body.t # "number"

\* the middleware has treated a request while a token is configured
Guarded ==
  /\ call.pc = "returned" /\ call.fn = "authMiddleware"
  /\ call.args[1] # <<>>

\* C40: with API_TOKEN configured, a request whose Bearer token differs from
\* API_TOKEN is answered 401, and a request with no Authorization, no Origin
\* and no Referer header is answered 401 and is not passed on to a handler.
C40_TokenRequired ==
  Guarded =>
    /\ (/\ call.args[2] # Absent
        /\ StartsWith(call.args[2][1], Bearer)
        /\ SubstringFrom(call.args[2][1], 7) # call.args[1]) =>
          call.ret[1].status = 401 /\ ~call.ret[1].next
    /\ (call.args[2] = Absent /\ call.args[3] = Absent /\ call.args[4] = Absent) =>
          call.ret[1].status = 401 /\ ~call.ret[1].next

=============================================================================
